---- MODULE Spec2Model ----
(***************************************************************************)
(* alien-middleware: the middleware chain execution engine of              *)
(* src/src/index.ts (createHandler/handler, MiddlewareChain.use/isolate,   *)
(* createExtendedEnv), as a state machine.                                 *)
(*                                                                         *)
(* A behaviour first composes chain values with use()/isolate() and then   *)
(* invokes one callable chain on the adapter's context.  The invocation is *)
(* a stack of frames, one per running `handler(parentContext)` call; an    *)
(* isolated chain is a wrapper middleware `ctx => this(ctx)` whose call    *)
(* pushes a frame derived from the caller's context.                       *)
(*                                                                         *)
(* SpecChain composes chain values with chain(middleware?) as well, and    *)
(* SpecRouter registers routes on a router of src/src/router.ts and        *)
(* dispatches requests to it, directly and through an enclosing chain.     *)
(* SpecError runs middlewares and callbacks that throw, SpecConcurrent      *)
(* serves several requests with one chain value, interleaved at their      *)
(* awaits, and SpecNested and SpecLive run fixed programs, SpecLive with    *)
(* weak fairness on the steps of the engine.                               *)
(***************************************************************************)
EXTENDS Integers, Sequences, FiniteSets, TLC

VARIABLES
    allowed,    \* the plain middleware functions the program under test composes
    chains,     \* every MiddlewareChain value created so far: [list, fn, born]
    isoOf,      \* isoOf[k] = the chain wrapped by the k-th isolate() closure
    stack,      \* the running handler() calls, outermost first
    calls,      \* log: every middleware invocation, with what its context showed
    exits,      \* log: every handler() call that has returned, with its result
    result,     \* what the outermost handler() call settled with
    adapter,    \* the adapter-supplied context: how often its passThrough() ran
    ran,        \* the chain invocation has been started
    nextFid,    \* number of handler() calls started so far
    cblog,      \* log: every response callback invocation, with what it received
    made,       \* log: every chain(middleware?) call, with the value it returned
    parked,     \* the requests in flight that wait at an await, and the number started
    paths,      \* routes(): the path patterns registered with router.use
    filters,    \* routes(): the method filter of each route
    handlers,   \* routes(): the handler of each route
    matcher,    \* routes(): the compiled PathMatcher, Undef when there is none
    request,    \* the request of the context the adapter called the router with
    routed      \* log: every handle() call of the current request

routerVars == <<paths, filters, handlers, matcher, request, routed>>

vars == <<allowed, chains, isoOf, stack, calls, exits, result, adapter, ran, nextFid, cblog,
          made, parked, routerVars>>

----------------------------------------------------------------------------
(* Bounds *)

\* number of use() calls a behaviour makes
MaxUse == 3
\* number of isolate() closures a behaviour creates
MaxIso == 2
\* longest handler list a chain may reach
MaxLen == 4
\* router.use calls on one router
MaxRoutes == 2
\* chain() calls a behaviour makes
MaxChainCalls == 3
\* the length of responseChain beyond which no callback that registers callbacks is called
MaxCallbacks == 6

----------------------------------------------------------------------------
(* Values *)

Undef == "undefined"
Absent == "absent"

Keys == {"foo"}
EnvKeys == {"K", "P", "U"}
HeaderNames == {"x", "y"}

\* the wrappers isolate() returns, in creation order
IsoNames == <<"iso1", "iso2", "iso3", "iso4">>
IsoSet == {IsoNames[k] : k \in 1..4}
IsoIndex(h) == CHOOSE k \in 1..4 : IsoNames[k] = h

EmptyFn == [x \in {} |-> Undef]

\* what a middleware or callback returns: nothing, a Response, or a plugin
NoValue == [t |-> "none", status |-> 0, rtype |-> "", by |-> "",
            keys |-> <<>>, props |-> EmptyFn, env |-> EmptyFn, cb |-> "",
            headers |-> EmptyFn, body |-> ""]

MkResponse(status, rtype, by) == [NoValue EXCEPT !.t = "response", !.status = status,
                                                 !.rtype = rtype, !.by = by]

\* keys: the plugin's own enumerable keys in for..in order
MkPlugin(keys, props, env, cb) == [NoValue EXCEPT !.t = "plugin", !.keys = keys,
                                                  !.props = props, !.env = env, !.cb = cb]

\* no second request: nothing waits
NoParked == [waiting |-> <<>>, started |-> 0]

\* the error a middleware or response callback throws (or rejects with)
Thrown(by) == [NoValue EXCEPT !.t = "error", !.by = by]

\* the descriptor of a property of a plugin written as an object literal
DataDesc(v) == [kind |-> "data", val |-> v, writable |-> TRUE, getter |-> ""]

\* The adapter's env(): test/index.test.ts uses () => undefined; here one
\* platform variable P is set so that delegation to the parent is observable.
AdapterEnv(key) == IF key = "P" THEN "p" ELSE Undef

\* The middleware functions of the programs under test.
\*   pass:  the body calls context.passThrough()
\*   async: the function returns a Promise of its value
Beh(h) ==
    CASE h = "noop"      -> [pass |-> FALSE, async |-> FALSE, ret |-> NoValue]
      [] h = "hFoo"      -> [pass |-> FALSE, async |-> TRUE,
                             ret |-> MkPlugin(<<"foo">>, [k \in {"foo"} |-> DataDesc("v1")], EmptyFn, "")]
      [] h = "hFoo2"     -> [pass |-> FALSE, async |-> FALSE,
                             ret |-> MkPlugin(<<"foo">>, [k \in {"foo"} |-> DataDesc("v2")], EmptyFn, "")]
      [] h = "hEnvA"     -> [pass |-> FALSE, async |-> TRUE,
                             ret |-> MkPlugin(<<"env">>, EmptyFn, [k \in {"K"} |-> "a"], "")]
      [] h = "hEnvB"     -> [pass |-> FALSE, async |-> FALSE,
                             ret |-> MkPlugin(<<"env">>, EmptyFn,
                                              [k \in {"K", "P"} |-> IF k = "K" THEN "b" ELSE Undef], "")]
      [] h = "hResp"     -> [pass |-> FALSE, async |-> TRUE,
                             ret |-> MkResponse(418, "default", "hResp")]
      [] h = "hPass"     -> [pass |-> TRUE, async |-> FALSE, ret |-> NoValue]
      [] h = "hPassResp" -> [pass |-> TRUE, async |-> TRUE,
                             ret |-> MkResponse(200, "default", "hPassResp")]
      [] h = "hPassPlugin" -> [pass |-> TRUE, async |-> TRUE,
                               ret |-> MkPlugin(<<"foo", "env", "onResponse">>,
                                                [k \in {"foo"} |-> DataDesc("v1")],
                                                [k \in {"K"} |-> "a"], "cbKeep")]
      [] h = "hCb"       -> [pass |-> FALSE, async |-> FALSE,
                             ret |-> MkPlugin(<<"onResponse">>, EmptyFn, EmptyFn, "cbReplace")]
      [] h = "hPass2"    -> [pass |-> TRUE, async |-> TRUE, ret |-> NoValue]
      [] h = "hReg"      -> [pass |-> FALSE, async |-> TRUE,
                             ret |-> MkPlugin(<<"onResponse">>, EmptyFn, EmptyFn, "cbKeep")]
      [] h = "hCbSet"    -> [pass |-> FALSE, async |-> FALSE,
                             ret |-> MkPlugin(<<"onResponse">>, EmptyFn, EmptyFn, "cbSetHeader")]
      [] h = "hThrow"    -> [pass |-> FALSE, async |-> TRUE, ret |-> Thrown("hThrow")]
      [] h = "hCbThrow"  -> [pass |-> FALSE, async |-> FALSE,
                             ret |-> MkPlugin(<<"onResponse">>, EmptyFn, EmptyFn, "cbThrow")]
      [] h = "hCbOnce"   -> [pass |-> FALSE, async |-> FALSE,
                             ret |-> MkPlugin(<<"onResponse">>, EmptyFn, EmptyFn, "cbOnce")]
      [] h = "hCbAgain"  -> [pass |-> FALSE, async |-> FALSE,
                             ret |-> MkPlugin(<<"onResponse">>, EmptyFn, EmptyFn, "cbAgain")]
      [] h = "hFetch"    -> [pass |-> FALSE, async |-> TRUE,
                             ret |-> [MkResponse(200, "basic", "hFetch") EXCEPT
                                         !.body = "Hello, world!"]]
      [] OTHER           -> [pass |-> FALSE, async |-> TRUE, ret |-> NoValue]

\* the context.setHeader(name, value) calls a middleware's body makes, in order
SetsHeaders(h) ==
    CASE h = "hHdrA" -> << <<"x", "1">> >>
      [] h = "hHdrB" -> << <<"x", "2">>, <<"y", "2">> >>
      [] OTHER       -> <<>>

\* the callbacks a middleware's body passes to context.onResponse(callback)
\* (hReg registers one function both ways: it passes it to context.onResponse
\* and returns it as the onResponse method of its plugin)
Registers(h) ==
    CASE h = "hReg"    -> <<"cbKeep">>
      [] h = "hOnResp" -> <<"cbTest">>
      [] OTHER         -> <<>>

\* how often a middleware's body calls context.passThrough()
PassThroughCalls(h) ==
    CASE h = "hPass2" -> 2
      [] OTHER        -> IF Beh(h).pass THEN 1 ELSE 0

\* The response callbacks: cbReplace returns a new Response, cbKeep returns
\* nothing, cbThrow throws.
CbBeh(cb) ==
    CASE cb = "cbReplace" -> MkResponse(200, "default", "cbReplace")
      [] cb = "cbThrow"   -> Thrown("cbThrow")
      [] OTHER            -> NoValue

\* the callbacks a response callback's body passes to context.onResponse(callback)
\* (cbOnce registers another callback, cbAgain registers itself every time)
CbRegisters(cb) ==
    CASE cb = "cbOnce"  -> <<"cbKeep">>
      [] cb = "cbAgain" -> <<"cbAgain">>
      [] OTHER          -> <<>>

\* the context.setHeader(name, value) calls a response callback's body makes
\* (cbSetHeader closes over the context of the middleware that returned it)
CbSetsHeaders(cb) ==
    CASE cb = "cbSetHeader" -> << <<"x", "9">> >>
      [] OTHER              -> <<>>

\* the response.headers.set(name, value) calls a response callback's body
\* makes on the response it receives
CbSetsResponseHeaders(cb) ==
    CASE cb = "cbTest" -> << <<"x-test", "test">> >>
      [] OTHER         -> <<>>

\* The programs under test: each composes its chains from one of these sets.
Universes == { {"noop", "hFoo", "hFoo2"},
               {"noop", "hEnvA", "hEnvB"},
               {"hResp", "hCb", "hPass"},
               {"hPass", "hPassResp", "hResp"} }

\* The programs that use response headers and response callbacks.
ResponseUniverses == { {"hHdrA", "hHdrB", "hResp"},
                       {"hReg", "hCb", "hCbSet"},
                       {"hHdrA", "hCb", "hPass2"} }

\* The programs with a middleware or a response callback that throws.
ErrorUniverses == { {"hReg", "hThrow", "hResp"},
                    {"hCbThrow", "hReg", "hResp"} }

\* The programs that build their chains with chain(middleware?).
ChainUniverses == { {"noop", "hFoo"} }

\* The programs that return the Response of a fetch() call.
FetchUniverses == { {"hFetch", "hOnResp", "hHdrA"} }

----------------------------------------------------------------------------
(* Router: routes(middlewares?) of src/src/router.ts *)

\* the request methods the programs under test send
Methods == {"GET", "POST", "DELETE"}

\* path patterns and request pathnames, as their segments
Patterns == {<<"users", ":id">>, <<"x">>}
Pathnames == {<<"users", "123">>, <<"x">>}

\* context.request of the context the adapter passes (method, parsed pathname)
Requests == [method : Methods, pathname : Pathnames]
NoRequest == [method |-> "", pathname |-> <<>>]

\* the first argument of router.use: absent in use(path, handler), '*', one
\* method, or an array of methods
MethodArgs == { [kind |-> "absent", ms |-> <<>>],
                [kind |-> "star", ms |-> <<>>],
                [kind |-> "one", ms |-> <<"GET">>],
                [kind |-> "one", ms |-> <<"POST">>],
                [kind |-> "array", ms |-> <<"GET", "POST">>] }

\* the route handlers: the k-th router.use call registers the k-th one, and
\* each returns a Response of its own
RouteHandlerNames == <<"r1", "r2", "r3", "r4">>
RouteBeh(h) == MkResponse(200, "default", h)

\* filters.push(null | m => method.includes(m) | m => method === m)
NullFilter == [kind |-> "null", ms |-> <<>>]
FilterOf(marg) ==
    IF marg.kind \in {"absent", "star"} THEN NullFilter
    ELSE IF marg.kind = "array" THEN [kind |-> "includes", ms |-> marg.ms]
    ELSE [kind |-> "equals", ms |-> marg.ms]

\* a callback that takes every path match
AcceptsAll(filter, method) == TRUE

\* !filters[index] || filters[index](method)
Accepts(filter, method) ==
    CASE filter.kind = "null"     -> TRUE
      [] filter.kind = "includes" -> \E j \in 1..Len(filter.ms) : filter.ms[j] = method
      [] filter.kind = "equals"   -> filter.ms[1] = method

\* pathic: a pattern segment ":name" matches any segment and binds name
ParamName(seg) == CASE seg = ":id" -> "id" [] OTHER -> ""
MatchPath(pattern, pathname) ==
    IF Len(pattern) # Len(pathname) THEN [ok |-> FALSE, params |-> EmptyFn]
    ELSE LET bound == {j \in 1..Len(pattern) : ParamName(pattern[j]) # ""} IN
         IF \A j \in 1..Len(pattern) : j \in bound \/ pattern[j] = pathname[j]
         THEN [ok |-> TRUE,
               params |-> [nm \in {ParamName(pattern[j]) : j \in bound} |->
                             pathname[CHOOSE j \in bound : ParamName(pattern[j]) = nm]]]
         ELSE [ok |-> FALSE, params |-> EmptyFn]

\* let matcher: PathMatcher | undefined
NoMatcher == [compiled |-> FALSE, paths |-> <<>>, order |-> <<>>]

\* compilePaths(paths): a matcher for these patterns; the order in which it
\* reports the patterns that match a pathname is pathic's choice
Perms(n) == {q \in [1..n -> 1..n] : \A a, b \in 1..n : a # b => q[a] # q[b]}
compilePaths(pths) == {[compiled |-> TRUE, paths |-> pths, order |-> q] : q \in Perms(Len(pths))}

\* matcher ||= compilePaths(paths)
MatcherOrCompile(m, pths) == IF m.compiled THEN {m} ELSE compilePaths(pths)

\* a registration that leaves the compiled matcher in place
KeepMatcher(m) == m

\* matcher = undefined
Invalidate(m) == NoMatcher

\* context.method and context.params of a derived context
NoRoute == [set |-> FALSE, method |-> "", params |-> EmptyFn]

\* a callback that calls the handler with the context as it is
AnnotateNothing(route, method, params) == route

\* context.method = method; context.params = params
Annotate(route, method, params) == [set |-> TRUE, method |-> method, params |-> params]

\* a callback that answers a rejected method itself
RejectWith405(route) == MkResponse(405, "default", "router")

\* the callback returns nothing when the filter rejects the method
RejectSilently(route) == NoValue

\* the callback handle() passes to the matcher: (index, params) => { ... }
Callback(tbl, route, method, index, params) ==
    IF Accepts(tbl.filters[index], method)
    THEN LET ctx == Annotate(route, method, params) IN
         [route |-> ctx, ret |-> RouteBeh(tbl.handlers[index]),
          rec |-> [index |-> index, params |-> params, accepted |-> TRUE,
                   handler |-> tbl.handlers[index], seen |-> ctx]]
    ELSE [route |-> route, ret |-> RejectSilently(route),
          rec |-> [index |-> index, params |-> params, accepted |-> FALSE,
                   handler |-> "", seen |-> route]]

\* matcher(pathname, callback): the callback is called for the patterns that
\* match, in the matcher's order, until it returns something
RECURSIVE Visit(_, _, _, _, _)
Visit(tbl, mt, req, j, acc) ==
    IF j > Len(mt.order) THEN acc
    ELSE LET index == mt.order[j]
             m == MatchPath(mt.paths[index], req.pathname) IN
         IF ~m.ok THEN Visit(tbl, mt, req, j + 1, acc)
         ELSE LET r == Callback(tbl, acc.route, req.method, index, m.params)
                  nxt == [route |-> r.route, tried |-> Append(acc.tried, r.rec),
                          ret |-> r.ret] IN
              IF r.ret.t # "none" THEN nxt ELSE Visit(tbl, mt, req, j + 1, nxt)

\* handle(context) with the matcher mt
handle(tbl, mt, req, route) ==
    Visit(tbl, mt, req, 1, [route |-> route, tried |-> <<>>, ret |-> NoValue])

\* the entry the log keeps of one handle() call
HandleRec(f, tbl, before, mt, req, r) ==
    [fid |-> f.fid, method |-> req.method, pathname |-> req.pathname,
     paths |-> tbl.paths, filters |-> tbl.filters, handlers |-> tbl.handlers,
     cached |-> before.compiled, compiledFrom |-> mt.paths, order |-> mt.order,
     tried |-> r.tried, ret |-> r.ret, route |-> r.route]

\* a program that uses no router
NoRouter ==
    /\ paths = <<>>
    /\ filters = <<>>
    /\ handlers = <<>>
    /\ matcher = NoMatcher
    /\ request = NoRequest
    /\ routed = <<>>

----------------------------------------------------------------------------
(* MiddlewareChain *)

\* `new MiddlewareChain()`: an object with an empty list that is not a function
\* (born remembers the list the value was created with)
EmptyChain == [list |-> <<>>, fn |-> FALSE, born |-> <<>>]

\* createHandler(requestChain): a callable chain carrying the given list
createHandler(requestChain) == [list |-> requestChain, fn |-> TRUE, born |-> requestChain]

\* a use() that pushes onto the receiver's array and shares it
UseResultInPlace(ch, c, addition) ==
    Append([ch EXCEPT ![c].list = @ \o addition], createHandler(ch[c].list \o addition))

\* a use() that puts what it is given in front of the receiver's middlewares
RequestChainPrepended(list, addition) == addition \o list

\* [...this[kRequestChain], ...middleware[kRequestChain]] and
\* [...this[kRequestChain], middleware]
RequestChain(list, addition) == list \o addition

\* use(): a new chain from a fresh array; the receiver's array is only read
UseResult(ch, c, addition) == Append(ch, createHandler(RequestChain(ch[c].list, addition)))

\* an isolate() that wraps whatever chain value it is called on
IsolateAlwaysWraps(ch, iso, c) == IsoNames[Len(iso) + 1]

\* isolate(): a wrapper for a callable chain, radashi's shared noop otherwise
IsolateResult(ch, iso, c) == IF ch[c].fn THEN IsoNames[Len(iso) + 1] ELSE "noop"

\* every middleware value the program can pass to use()
Middlewares == allowed \cup {IsoNames[k] : k \in 1..Len(isoOf)}

----------------------------------------------------------------------------
(* The request context: a prototype chain of frames over the adapter context *)

Top == stack[Len(stack)]

\* a lookup that starts at the adapter's end of the prototype chain
VisiblePropOutermost(stk, n, key) ==
    LET ds == {m \in 1..n : key \in DOMAIN stk[m].props} IN
    IF ds = {} THEN [val |-> Absent, owner |-> 0]
    ELSE LET m == CHOOSE x \in ds : \A d \in ds : x <= d IN
         [val |-> stk[m].props[key].val, owner |-> stk[m].fid]

\* `key in context` / context[key] through the prototype chain of frame n
\* (owner: the handler() call on whose context the property is defined)
RECURSIVE VisibleProp(_, _, _)
VisibleProp(stk, n, key) ==
    IF n = 0 THEN [val |-> Absent, owner |-> 0]
    ELSE IF key \in DOMAIN stk[n].props
         THEN [val |-> stk[n].props[key].val, owner |-> stk[n].fid]
    ELSE VisibleProp(stk, stk[n].parent, key)

\* an accessor that never delegates to the parent
CoalesceOwnOnly(own, super) == own

\* env[key] ?? superEnv(key)
Coalesce(own, super) == IF own # Undef THEN own ELSE super

\* env[key] of the object made by createExtendedEnv (no prototype)
OwnEnv(f, key) == IF f.hasEnv /\ key \in DOMAIN f.env THEN f.env[key] ELSE Undef

\* context.env(key) as seen from frame n
RECURSIVE EnvLookup(_, _, _)
EnvLookup(stk, n, key) ==
    IF n = 0 THEN AdapterEnv(key)
    ELSE IF stk[n].hasEnv
         THEN Coalesce(OwnEnv(stk[n], key), EnvLookup(stk, stk[n].parent, key))
    ELSE EnvLookup(stk, stk[n].parent, key)

\* the handler() call whose env object answers context.env(key), 0: the adapter
RECURSIVE EnvOwner(_, _, _)
EnvOwner(stk, n, key) ==
    IF n = 0 THEN 0
    ELSE IF OwnEnv(stk[n], key) # Undef THEN stk[n].fid
    ELSE EnvOwner(stk, stk[n].parent, key)

\* a request loop that forgets to record the middleware it calls
CacheAddNothing(cache, h) == cache

\* cache.add(middleware)
CacheAdd(cache, h) == cache \cup {h}

\* a cache kept on the context the adapter passes in: every request given that
\* context starts with what the earlier ones called
ParentCacheShared(stk, p) == IF p = 0 THEN {calls[k].h : k \in 1..Len(calls)} ELSE stk[p].cache

\* a derived context that starts with an empty cache
ParentCacheDropped(stk, p) == {}

\* parentContext[kMiddlewareCache]
ParentCache(stk, p) == IF p = 0 THEN {} ELSE stk[p].cache

\* a flag that is read as set on every context, the adapter's included
IgnoreNotFoundAlways(p) == TRUE

\* a flag that is never found set
IgnoreNotFoundNever(p) == FALSE

\* parentContext[kIgnoreNotFound]: set on every derived context, not on the adapter's
ParentIgnoreNotFound(p) == p # 0

\* context[kResponseHeaders] read through the prototype chain of frame n
\* (set: a Headers object exists; h: its entries)
RECURSIVE ResponseHeaders(_, _)
ResponseHeaders(stk, n) ==
    IF n = 0 THEN [set |-> FALSE, h |-> EmptyFn]
    ELSE IF stk[n].ownHdr THEN [set |-> TRUE, h |-> stk[n].hdr]
    ELSE ResponseHeaders(stk, stk[n].parent)

\* the frame on whose context that Headers object is stored, 0 when there is none
RECURSIVE HeadersOwner(_, _)
HeadersOwner(stk, n) ==
    IF n = 0 THEN 0
    ELSE IF stk[n].ownHdr THEN n
    ELSE HeadersOwner(stk, stk[n].parent)

\* headers.set(name, value)
HeadersSet(h, name, value) ==
    [k \in DOMAIN h \cup {name} |-> IF k = name THEN value ELSE h[k]]

\* a setHeader that writes into the Headers object it inherited
SetHeaderShared(stk, n, name, value) ==
    LET o == HeadersOwner(stk, n) IN
    IF o = 0
    THEN [stk EXCEPT ![n].ownHdr = TRUE, ![n].hdr = HeadersSet(EmptyFn, name, value)]
    ELSE [stk EXCEPT ![o].hdr = HeadersSet(@, name, value)]

\* context.setHeader(name, value): a Headers object of its own, made on first
\* use from the inherited entries, receives the header
SetHeader(stk, n, name, value) ==
    LET own == IF stk[n].ownHdr THEN stk[n].hdr ELSE ResponseHeaders(stk, n).h IN
    [stk EXCEPT ![n].ownHdr = TRUE, ![n].hdr = HeadersSet(own, name, value)]

\* the setHeader calls of one function body, from position j on
RECURSIVE SetHeaderCalls(_, _, _, _)
SetHeaderCalls(stk, n, sets, j) ==
    IF j > Len(sets) THEN stk
    ELSE SetHeaderCalls(SetHeader(stk, n, sets[j][1], sets[j][2]), n, sets, j + 1)

\* headers.set for the calls sets[j..]
RECURSIVE HeadersSetAll(_, _, _)
HeadersSetAll(h, sets, j) ==
    IF j > Len(sets) THEN h
    ELSE HeadersSetAll(HeadersSet(h, sets[j][1], sets[j][2]), sets, j + 1)

\* the headers of a Response made by new Response() can be modified; those of
\* a Response of another type (the result of fetch()) are immutable
Immutable(resp) == resp.rtype # "default"

\* a response phase that works on the Response the middleware returned
CloneNever(resp) == resp

\* if (response.type !== 'default') response = new Response(response.body, response):
\* a Response of type "default" with the same body, status and headers
CloneIfNotDefault(resp) ==
    IF resp.rtype # "default"
    THEN [MkResponse(resp.status, "default", resp.by) EXCEPT
             !.body = resp.body, !.headers = resp.headers]
    ELSE resp

\* a response phase that leaves the buffered headers where they are
ApplyNoHeaders(resp, h) == resp

\* context[kResponseHeaders]?.forEach((value, name) => response.headers.set(name, value))
ApplyHeaders(resp, h) ==
    [resp EXCEPT !.headers = [k \in DOMAIN resp.headers \cup DOMAIN h |->
                                IF k \in DOMAIN h THEN h[k] ELSE resp.headers[k]]]

\* a context whose setHeader stays callable during the response phase
KeepSetHeader(f) == f

\* context.setHeader = null
DisableSetHeader(f) == [f EXCEPT !.setHeader = FALSE]

\* a registration that ignores a callback it already holds
PushCallbackOnce(cbs, cb) ==
    IF \E j \in 1..Len(cbs) : cbs[j] = cb THEN cbs ELSE Append(cbs, cb)

\* responseChain.push(callback)
PushCallback(cbs, cb) == Append(cbs, cb)

\* a context.onResponse that registers nothing
OnResponseCallsDropped(cbs, reg, j) == cbs

\* the context.onResponse(callback) calls of one middleware body, from position j on
RECURSIVE OnResponseCalls(_, _, _)
OnResponseCalls(cbs, reg, j) ==
    IF j > Len(reg) THEN cbs
    ELSE OnResponseCalls(PushCallback(cbs, reg[j]), reg, j + 1)

\* a passThrough() that also raises the flag of every enclosing handler() call
RequestPassThroughUpward(stk, n, called) ==
    [j \in 1..Len(stk) |-> IF j <= n THEN [stk[j] EXCEPT !.spt = @ \/ called] ELSE stk[j]]

\* context.passThrough = () => { shouldPassThrough = true }: the override on
\* the derived context raises the flag of its own handler() call only
RequestPassThrough(stk, n, called) == [stk EXCEPT ![n].spt = @ \/ called]

\* the prologue of handler(parentContext): the derived context and the locals
NewFrame(stk, c, p, fid) ==
    [fid |-> fid, chain |-> c, parent |-> p,
     path |-> (IF p = 0 THEN <<>> ELSE stk[p].path) \o <<fid>>,
     i |-> 0, pc |-> "loop", cur |-> "", ret |-> NoValue,
     props |-> EmptyFn, hasEnv |-> FALSE, env |-> EmptyFn,
     cache |-> ParentCache(stk, p), cache0 |-> ParentCache(stk, p),
     spt |-> FALSE, brk |-> FALSE, cbs |-> <<>>, cbi |-> 0,
     hasResp |-> FALSE, response |-> NoValue, synth |-> FALSE, replaced |-> FALSE,
     ownHdr |-> FALSE, hdr |-> EmptyFn, setHeader |-> TRUE,
     route |-> NoRoute]

\* Object.defineProperty(context, key, descriptor) with configurable: false;
\* "TypeError" when ValidateAndApplyPropertyDescriptor rejects the change
DefineProperty(props, key, desc) ==
    IF key \notin DOMAIN props
    THEN [ok |-> TRUE, props |-> [k \in DOMAIN props \cup {key} |->
                                    IF k = key THEN desc ELSE props[k]]]
    ELSE LET cur == props[key] IN
         IF cur.kind # desc.kind
         THEN [ok |-> FALSE, props |-> props]
         ELSE IF cur.kind = "accessor"
         THEN [ok |-> cur.getter = desc.getter, props |-> props]
         ELSE IF cur.writable
         THEN [ok |-> TRUE, props |-> [props EXCEPT ![key] = desc]]
         ELSE [ok |-> desc.val = cur.val /\ ~desc.writable, props |-> props]

\* Object.defineProperties(env, Object.getOwnPropertyDescriptors(result.env))
\* for plain (writable, configurable) descriptors
ExtendEnv(env, e) ==
    [k \in DOMAIN env \cup DOMAIN e |-> IF k \in DOMAIN e THEN e[k] ELSE env[k]]

\* the `for (const key in result)` loop over a plugin, from position j on
RECURSIVE ApplyPlugin(_, _, _)
ApplyPlugin(f, r, j) ==
    IF j > Len(r.keys) THEN [ok |-> TRUE, f |-> f]
    ELSE LET key == r.keys[j] IN
         IF key = "env"
         THEN ApplyPlugin([f EXCEPT !.hasEnv = TRUE, !.env = ExtendEnv(f.env, r.env)], r, j + 1)
         ELSE IF key = "onResponse"
         THEN ApplyPlugin(IF r.cb # "" THEN [f EXCEPT !.cbs = PushCallback(f.cbs, r.cb)] ELSE f, r, j + 1)
         ELSE LET d == DefineProperty(f.props, key, r.props[key]) IN
              IF d.ok THEN ApplyPlugin([f EXCEPT !.props = d.props], r, j + 1)
              ELSE [ok |-> FALSE, f |-> f]

\* a request loop that adopts the Response and goes on with the next middleware
ProcessResultNoBreak(f, r) ==
    IF f.spt
    THEN [ok |-> TRUE, brk |-> TRUE, f |-> f]
    ELSE IF r.t = "response"
    THEN [ok |-> TRUE, brk |-> FALSE, f |-> [f EXCEPT !.hasResp = TRUE, !.response = r]]
    ELSE IF r.t = "plugin"
    THEN LET a == ApplyPlugin(f, r, 1) IN [ok |-> a.ok, brk |-> FALSE, f |-> a.f]
    ELSE [ok |-> TRUE, brk |-> FALSE, f |-> f]

\* a request loop that never looks at shouldPassThrough
ProcessResultNoPassCheck(f, r) ==
    IF r.t = "response"
    THEN [ok |-> TRUE, brk |-> TRUE, f |-> [f EXCEPT !.hasResp = TRUE, !.response = r]]
    ELSE IF r.t = "plugin"
    THEN LET a == ApplyPlugin(f, r, 1) IN [ok |-> a.ok, brk |-> FALSE, f |-> a.f]
    ELSE [ok |-> TRUE, brk |-> FALSE, f |-> f]

\* the body of the request loop after the await: lines 112-142.
\* brk: the loop is left; ok: nothing was thrown
ProcessResult(f, r) ==
    IF f.spt
    THEN [ok |-> TRUE, brk |-> TRUE, f |-> f]
    ELSE IF r.t = "response"
    THEN [ok |-> TRUE, brk |-> TRUE, f |-> [f EXCEPT !.hasResp = TRUE, !.response = r]]
    ELSE IF r.t = "plugin"
    THEN LET a == ApplyPlugin(f, r, 1) IN [ok |-> a.ok, brk |-> FALSE, f |-> a.f]
    ELSE [ok |-> TRUE, brk |-> FALSE, f |-> f]

\* what the context shows the middleware that is being called
SeenProps(stk, n) == [k \in Keys |-> VisibleProp(stk, n, k)]
SeenEnv(stk, n) == [k \in EnvKeys |-> EnvLookup(stk, n, k)]

\* the entry the log keeps of one middleware call
CallRec(stk, n, h) ==
    [fid |-> stk[n].fid, path |-> stk[n].path, chain |-> stk[n].chain,
     h |-> h, idx |-> stk[n].i + 1,
     props |-> SeenProps(stk, n), env |-> SeenEnv(stk, n),
     penv |-> SeenEnv(stk, stk[n].parent),
     envOwner |-> [k \in EnvKeys |-> EnvOwner(stk, n, k)],
     at |-> nextFid,
     done |-> FALSE, ret |-> NoValue, applied |-> FALSE,
     hdrOwn |-> stk[n].ownHdr, hdr |-> ResponseHeaders(stk, n).h]

\* the log entry of the call the frame with this fid is awaiting
Pending(log, fid) == CHOOSE k \in 1..Len(log) :
                        /\ log[k].fid = fid
                        /\ \A j \in (k + 1)..Len(log) : log[j].fid # fid

\* what the body of middleware h does to the context it was called with
HandlerBody(stk, n, h) ==
    LET s1 == RequestPassThrough(stk, n, Beh(h).pass)
        s2 == SetHeaderCalls(s1, n, SetsHeaders(h), 1) IN
    [s2 EXCEPT ![n].cbs = OnResponseCalls(@, Registers(h), 1)]

\* the entry the log keeps of one response callback call
CallbackRec(stk, n, cb, r, threw, after, out) ==
    [fid |-> stk[n].fid, cb |-> cb, pos |-> stk[n].cbi + 1, got |-> stk[n].response,
     ret |-> r, threw |-> threw, out |-> out,
     hdrBefore |-> ResponseHeaders(stk, n).h, hdrAfter |-> ResponseHeaders(after, n).h]

----------------------------------------------------------------------------
(* Settling a handler() call *)

ErrorValue == [NoValue EXCEPT !.t = "error"]

ExitRec(f, v) == [fid |-> f.fid, chain |-> f.chain, parent |-> f.parent, path |-> f.path,
                  val |-> v, synth |-> f.synth, spt |-> f.spt, i |-> f.i,
                  brk |-> f.brk, cache0 |-> f.cache0,
                  replaced |-> f.replaced, cbi |-> f.cbi,
                  hdrOwn |-> f.ownHdr, hdr |-> f.hdr, cbs |-> f.cbs]

\* a handler() that registers callbacks on its caller's responseChain
DeliverCallbacksUp(v) ==
    LET f == Top
        n == Len(stack) IN
    /\ exits' = Append(exits, ExitRec(f, v))
    /\ IF n = 1
       THEN /\ stack' = <<>>
            /\ result' = v
       ELSE /\ stack' = [SubSeq(stack, 1, n - 1) EXCEPT ![n - 1].ret = v,
                                                       ![n - 1].cbs = @ \o f.cbs]
            /\ result' = result

\* a handler() that shares its caller's cache Set instead of copying it
DeliverSharedCache(v) ==
    LET f == Top
        n == Len(stack) IN
    /\ exits' = Append(exits, ExitRec(f, v))
    /\ IF n = 1
       THEN /\ stack' = <<>>
            /\ result' = v
       ELSE /\ stack' = [SubSeq(stack, 1, n - 1) EXCEPT ![n - 1].ret = v,
                                                       ![n - 1].cache = @ \cup f.cache]
            /\ result' = result

\* a handler() that works on its caller's context: what it defined stays there
DeliverLeaky(v) ==
    LET f == Top
        n == Len(stack) IN
    /\ exits' = Append(exits, ExitRec(f, v))
    /\ IF n = 1
       THEN /\ stack' = <<>>
            /\ result' = v
       ELSE /\ stack' = [SubSeq(stack, 1, n - 1) EXCEPT
                           ![n - 1].ret = v,
                           ![n - 1].props = [k \in DOMAIN @ \cup DOMAIN f.props |->
                                               IF k \in DOMAIN f.props THEN f.props[k] ELSE @[k]],
                           ![n - 1].hasEnv = @ \/ f.hasEnv,
                           ![n - 1].env = ExtendEnv(@, f.env)]
            /\ result' = result

\* the async function handler() returns v: its caller's await continues
Deliver(v) ==
    LET f == Top
        n == Len(stack) IN
    /\ exits' = Append(exits, ExitRec(f, v))
    /\ IF n = 1
       THEN /\ stack' = <<>>
            /\ result' = v
       ELSE /\ stack' = [SubSeq(stack, 1, n - 1) EXCEPT ![n - 1].ret = v]
            /\ result' = result

\* a wrapper that catches what its chain throws and returns nothing instead
RejectCaught(err) ==
    LET f == Top
        n == Len(stack) IN
    /\ exits' = Append(exits, ExitRec(f, err))
    /\ IF n = 1
       THEN /\ stack' = <<>>
            /\ result' = err
       ELSE /\ stack' = [SubSeq(stack, 1, n - 1) EXCEPT ![n - 1].ret = NoValue]
            /\ result' = result

\* a middleware or callback threw: nothing catches, so the await of every
\* enclosing handler() call throws the same error and that call rejects too
Reject(err) ==
    /\ exits' = exits \o [j \in 1..Len(stack) |->
                            ExitRec(stack[Len(stack) + 1 - j], err)]
    /\ stack' = <<>>
    /\ result' = err

----------------------------------------------------------------------------
(* Actions *)

Init ==
    /\ allowed \in Universes
    /\ chains = <<EmptyChain>>
    /\ isoOf = <<>>
    /\ stack = <<>>
    /\ calls = <<>>
    /\ exits = <<>>
    /\ result = NoValue
    /\ adapter = [passThrough |-> 0]
    /\ ran = FALSE
    /\ nextFid = 0
    /\ cblog = <<>>
    /\ made = <<>>
    /\ parked = NoParked
    /\ NoRouter

Composing == ~ran /\ Len(chains) <= MaxUse

\* the programs under test build no callable chain twice, unless by merging
\* a chain into chain() as in `chain().use(innerChain)`, wrap no chain twice
\* and use every wrapper they create before creating the next
Fresh(list) == \A k \in 1..Len(chains) : ~(chains[k].fn /\ chains[k].list = list)
IsoUsed(h) == \E k \in 1..Len(chains) : \E j \in 1..Len(chains[k].list) : chains[k].list[j] = h

\* c.use(middleware) with a middleware function
Use(c, h) ==
    /\ Composing
    /\ Len(chains[c].list) + 1 <= MaxLen
    /\ Fresh(chains[c].list \o <<h>>)
    /\ chains' = UseResult(chains, c, <<h>>)
    /\ UNCHANGED <<allowed, isoOf, stack, calls, exits, result, adapter, ran, nextFid, cblog,
                 made, parked, routerVars>>

\* c.use(d) with a chain value d: the two lists are concatenated
UseChain(c, d) ==
    /\ Composing
    /\ Len(chains[c].list) + Len(chains[d].list) <= MaxLen
    /\ Fresh(chains[c].list \o chains[d].list) \/ ~chains[c].fn
    /\ chains' = UseResult(chains, c, chains[d].list)
    /\ UNCHANGED <<allowed, isoOf, stack, calls, exits, result, adapter, ran, nextFid, cblog,
                 made, parked, routerVars>>

\* c.isolate()
Isolate(c) ==
    /\ ~ran
    /\ Len(isoOf) < MaxIso
    /\ \A k \in 1..Len(isoOf) : IsoUsed(IsoNames[k]) /\ isoOf[k] # c
    /\ isoOf' = IF IsolateResult(chains, isoOf, c) = "noop" THEN isoOf ELSE Append(isoOf, c)
    /\ UNCHANGED <<allowed, chains, stack, calls, exits, result, adapter, ran, nextFid, cblog,
                 made, parked, routerVars>>

\* the adapter calls the chain c with its own context
Invoke(c) ==
    /\ ~ran
    /\ chains[c].fn
    /\ ran' = TRUE
    /\ nextFid' = nextFid + 1
    /\ stack' = <<NewFrame(stack, c, 0, nextFid + 1)>>
    /\ UNCHANGED <<allowed, chains, isoOf, calls, exits, result, adapter, cblog,
                 made, parked, routerVars>>

\* a request loop that does not await the middleware's promise
LoopingNoAwait == stack # <<>> /\ Top.pc \in {"loop", "called"}
                                /\ Top.i < Len(chains[Top.chain].list)

\* the request loop is at the head of an iteration
Looping == stack # <<>> /\ Top.pc = "loop" /\ Top.i < Len(chains[Top.chain].list)

\* a request loop that looks again at the middleware it found in the cache
SkipAgain ==
    /\ Looping
    /\ chains[Top.chain].list[Top.i + 1] \in Top.cache
    /\ UNCHANGED vars

\* the request loop meets a middleware that is in the cache: continue
Skip ==
    /\ Looping
    /\ chains[Top.chain].list[Top.i + 1] \in Top.cache
    /\ stack' = [stack EXCEPT ![Len(stack)].i = @ + 1]
    /\ UNCHANGED <<allowed, chains, isoOf, calls, exits, result, adapter, ran, nextFid, cblog,
                 made, parked, routerVars>>

\* cache.add(middleware); result = middleware(context)
Call ==
    /\ Looping
    /\ LET n == Len(stack)
           f == Top
           h == chains[f.chain].list[f.i + 1] IN
       /\ h \notin f.cache
       /\ calls' = Append(calls, CallRec(stack, n, h))
       /\ IF h \in IsoSet
          THEN LET g == [f EXCEPT !.i = @ + 1, !.cache = CacheAdd(@, h), !.pc = "called",
                                  !.cur = h, !.ret = NoValue]
                   stk == [stack EXCEPT ![n] = g] IN
               /\ stack' = Append(stk, NewFrame(stk, isoOf[IsoIndex(h)], n, nextFid + 1))
               /\ nextFid' = nextFid + 1
               /\ UNCHANGED <<matcher, routed>>
          ELSE IF h = "handle"
          THEN \E mt \in MatcherOrCompile(matcher, paths) :
                 LET tbl == [paths |-> paths, filters |-> filters, handlers |-> handlers]
                     r == handle(tbl, mt, request, f.route) IN
                 /\ matcher' = mt
                 /\ routed' = Append(routed, HandleRec(f, tbl, matcher, mt, request, r))
                 /\ stack' = [stack EXCEPT ![n] =
                                 [f EXCEPT !.i = @ + 1, !.cache = CacheAdd(@, h), !.pc = "called",
                                           !.cur = h, !.ret = r.ret, !.route = r.route]]
                 /\ nextFid' = nextFid
          ELSE /\ UNCHANGED <<matcher, routed>>
               /\ stack' = HandlerBody([stack EXCEPT ![n] =
                                 [f EXCEPT !.i = @ + 1, !.cache = CacheAdd(@, h), !.pc = "called",
                                           !.cur = h, !.ret = Beh(h).ret]], n, h)
               /\ nextFid' = nextFid
    /\ UNCHANGED <<allowed, chains, isoOf, exits, result, adapter, ran, cblog, made, parked,
                 paths, filters, handlers, request>>

\* the awaited result of the middleware: passThrough, a Response, or a plugin
Settle ==
    /\ stack # <<>>
    /\ Top.pc = "called"
    /\ LET n == Len(stack)
           f == Top
           \* the await throws what the middleware threw or rejected with
           threw == f.ret.t = "error"
           p == ProcessResult(f, f.ret)
           k == Pending(calls, f.fid) IN
       /\ calls' = [calls EXCEPT ![k].done = TRUE, ![k].ret = f.ret,
                                  ![k].applied = ~threw /\ p.ok /\ ~f.spt]
       /\ IF ~threw /\ p.ok
          THEN /\ stack' = [stack EXCEPT ![n] =
                              [p.f EXCEPT !.pc = IF p.brk THEN "endreq" ELSE "loop",
                                          !.brk = p.brk]]
               /\ UNCHANGED <<exits, result>>
          ELSE Reject(IF threw THEN f.ret ELSE ErrorValue)
    /\ UNCHANGED <<allowed, chains, isoOf, adapter, ran, nextFid, cblog,
                 made, parked, routerVars>>

\* an adapter that is told once for every context.passThrough() call
NotifyAdapterPerCall(a, f) == [a EXCEPT !.passThrough = @ + PassThroughCalls(f.cur)]

\* passThrough(): the adapter's own function, read from the context before the override
NotifyAdapter(a, f) == [a EXCEPT !.passThrough = @ + 1]

\* lines 160-165: the buffered headers go onto the response, then setHeader is disabled
BeginResponsePhase(stk, n, resp, synth) ==
    DisableSetHeader([stk[n] EXCEPT !.pc = "resp", !.hasResp = TRUE, !.synth = synth,
                                    !.response = ApplyHeaders(resp, ResponseHeaders(stk, n).h)])

\* after the request loop: no response for a derived parent, a 404 otherwise
EndRequest ==
    /\ stack # <<>>
    /\ \/ Top.pc = "endreq"
       \/ Top.pc = "loop" /\ Top.i = Len(chains[Top.chain].list)
    /\ LET n == Len(stack)
           f == Top IN
       IF ~f.hasResp
       THEN IF ParentIgnoreNotFound(f.parent)
            THEN /\ Deliver(NoValue)
                 /\ adapter' = adapter
            ELSE LET nf == [MkResponse(404, "default", "notFound") EXCEPT
                                  !.body = "Not Found"] IN
                 IF f.spt
                 THEN /\ adapter' = NotifyAdapter(adapter, f)
                      /\ Deliver(nf)
                 ELSE /\ stack' = [stack EXCEPT ![n] = BeginResponsePhase(stack, n, nf, TRUE)]
                      /\ UNCHANGED <<adapter, exits, result>>
       ELSE /\ stack' = [stack EXCEPT ![n] =
                           BeginResponsePhase(stack, n, CloneIfNotDefault(f.response), FALSE)]
            /\ UNCHANGED <<adapter, exits, result>>
    /\ UNCHANGED <<allowed, chains, isoOf, calls, ran, nextFid, cblog,
                 made, parked, routerVars>>

\* a response loop that keeps the response it started with
NextResponseKept(cur, r) == cur

\* if (result) response = result
NextResponse(cur, r) == IF r.t = "response" THEN r ELSE cur

\* the response loop calls the next callback; a returned Response replaces
RunCallback ==
    /\ stack # <<>>
    /\ Top.pc = "resp"
    /\ Top.cbi < Len(Top.cbs)
    /\ CbRegisters(Top.cbs[Top.cbi + 1]) # <<>> => Len(Top.cbs) < MaxCallbacks
    /\ LET n == Len(stack)
           f == Top
           cb == f.cbs[f.cbi + 1]
           sets == CbSetsHeaders(cb)
           rsets == CbSetsResponseHeaders(cb)
           \* calling null throws a TypeError before anything else happens,
           \* and so does headers.set on immutable headers
           typeError == \/ sets # <<>> /\ ~f.setHeader
                        \/ rsets # <<>> /\ Immutable(f.response)
           threw == typeError \/ CbBeh(cb).t = "error"
           stk0 == IF sets # <<>> /\ f.setHeader THEN SetHeaderCalls(stack, n, sets, 1) ELSE stack
           \* context.onResponse pushes onto the array the loop is iterating
           stk == [stk0 EXCEPT ![n].cbs = OnResponseCalls(@, CbRegisters(cb), 1)]
           r == IF typeError THEN ErrorValue ELSE CbBeh(cb)
           got == IF threw THEN f.response
                  ELSE [f.response EXCEPT !.headers = HeadersSetAll(@, rsets, 1)]
           out == NextResponse(got, r) IN
       /\ cblog' = Append(cblog, CallbackRec(stack, n, cb, r, threw, stk, out))
       /\ IF threw
          THEN Reject(r)
          ELSE /\ stack' = [stk EXCEPT ![n] = [stk[n] EXCEPT !.cbi = @ + 1,
                                                            !.replaced = @ \/ r.t = "response",
                                                            !.response = out]]
               /\ UNCHANGED <<exits, result>>
    /\ UNCHANGED <<allowed, chains, isoOf, calls, adapter, ran, nextFid,
                 made, parked, routerVars>>

\* a handler() that returns the response its request phase ended with, whatever
\* the callbacks returned
ReturnFirst ==
    /\ stack # <<>>
    /\ Top.pc = "resp"
    /\ Top.cbi = Len(Top.cbs)
    /\ LET mine == {c \in 1..Len(cblog) : cblog[c].fid = Top.fid} IN
       Deliver(IF mine = {} THEN Top.response
               ELSE cblog[CHOOSE c \in mine : \A d \in mine : c <= d].got)
    /\ UNCHANGED <<allowed, chains, isoOf, calls, adapter, ran, nextFid, cblog,
                 made, parked, routerVars>>

\* return response
Return ==
    /\ stack # <<>>
    /\ Top.pc = "resp"
    /\ Top.cbi = Len(Top.cbs)
    /\ Deliver(Top.response)
    /\ UNCHANGED <<allowed, chains, isoOf, calls, adapter, ran, nextFid, cblog,
                 made, parked, routerVars>>

Next ==
    \/ \E c \in 1..Len(chains) : \E h \in Middlewares : Use(c, h)
    \/ \E c \in 1..Len(chains) : \E d \in 1..Len(chains) : UseChain(c, d)
    \/ \E c \in 1..Len(chains) : Isolate(c)
    \/ \E c \in 1..Len(chains) : Invoke(c)
    \/ Skip
    \/ Call
    \/ Settle
    \/ EndRequest
    \/ RunCallback
    \/ Return

Spec == Init /\ [][Next]_vars

\* the programs that use response headers and response callbacks
InitResponse ==
    /\ allowed \in ResponseUniverses
    /\ chains = <<EmptyChain>>
    /\ isoOf = <<>>
    /\ stack = <<>>
    /\ calls = <<>>
    /\ exits = <<>>
    /\ result = NoValue
    /\ adapter = [passThrough |-> 0]
    /\ ran = FALSE
    /\ nextFid = 0
    /\ cblog = <<>>
    /\ made = <<>>
    /\ parked = NoParked
    /\ NoRouter

SpecResponse == InitResponse /\ [][Next]_vars

\* the programs that return the Response of a fetch() call
InitFetch ==
    /\ allowed \in FetchUniverses
    /\ chains = <<EmptyChain>>
    /\ isoOf = <<>>
    /\ stack = <<>>
    /\ calls = <<>>
    /\ exits = <<>>
    /\ result = NoValue
    /\ adapter = [passThrough |-> 0]
    /\ ran = FALSE
    /\ nextFid = 0
    /\ cblog = <<>>
    /\ made = <<>>
    /\ parked = NoParked
    /\ NoRouter

SpecFetch == InitFetch /\ [][Next]_vars

\* the programs with a middleware or a response callback that throws
InitError ==
    /\ allowed \in ErrorUniverses
    /\ chains = <<EmptyChain>>
    /\ isoOf = <<>>
    /\ stack = <<>>
    /\ calls = <<>>
    /\ exits = <<>>
    /\ result = NoValue
    /\ adapter = [passThrough |-> 0]
    /\ ran = FALSE
    /\ nextFid = 0
    /\ cblog = <<>>
    /\ made = <<>>
    /\ parked = NoParked
    /\ NoRouter

SpecError == InitError /\ [][Next]_vars

----------------------------------------------------------------------------
(* chain(middleware?) *)

\* the argument of a chain() call: none, a middleware function, a chain value
ChainArgs ==
    {[kind |-> "none", h |-> "", c |-> 0]}
        \cup {[kind |-> "fn", h |-> h, c |-> 0] : h \in Middlewares}
        \cup {[kind |-> "chain", h |-> "", c |-> c] : c \in 1..Len(chains)}

\* a chain() that wraps a chain value it is given in a new chain value
chainCopies(ch, arg) ==
    IF arg.kind = "none" THEN [chains |-> Append(ch, EmptyChain), ret |-> Len(ch) + 1]
    ELSE [chains |-> Append(ch, createHandler(IF arg.kind = "fn" THEN <<arg.h>>
                                                ELSE ch[arg.c].list)),
          ret |-> Len(ch) + 1]

\* chain(middleware?): the values that exist afterwards and the one returned
chain(ch, arg) ==
    IF arg.kind = "chain" THEN [chains |-> ch, ret |-> arg.c]
    ELSE IF arg.kind = "fn"
    THEN [chains |-> Append(ch, createHandler(EmptyChain.list \o <<arg.h>>)),
          ret |-> Len(ch) + 1]
    ELSE [chains |-> Append(ch, EmptyChain), ret |-> Len(ch) + 1]

\* a program whose chain values all come from chain() calls
InitChain ==
    /\ allowed \in ChainUniverses
    /\ chains = <<>>
    /\ isoOf = <<>>
    /\ stack = <<>>
    /\ calls = <<>>
    /\ exits = <<>>
    /\ result = NoValue
    /\ adapter = [passThrough |-> 0]
    /\ ran = FALSE
    /\ nextFid = 0
    /\ cblog = <<>>
    /\ made = <<>>
    /\ parked = NoParked
    /\ NoRouter

\* one chain(middleware?) call
Chain(arg) ==
    /\ Composing
    /\ Len(made) < MaxChainCalls
    /\ LET r == chain(chains, arg) IN
       /\ chains' = r.chains
       /\ made' = Append(made, [arg |-> arg, ret |-> r.ret, before |-> Len(chains),
                                after |-> Len(r.chains)])
    /\ UNCHANGED <<allowed, isoOf, stack, calls, exits, result, adapter, ran, nextFid,
                   cblog, parked, routerVars>>

NextChain ==
    \/ \E arg \in ChainArgs : Chain(arg)
    \/ \E c \in 1..Len(chains) : \E h \in Middlewares : Use(c, h)
    \/ \E c \in 1..Len(chains) : \E d \in 1..Len(chains) : UseChain(c, d)

SpecChain == InitChain /\ [][NextChain]_vars

----------------------------------------------------------------------------
(* Router: registration and dispatch *)

\* the chain the router runs: middlewares?.use(handle) ?? chain(handle)
RunChain == isoOf[1]

\* chain().use(router): `router` is the function context => run(context)
OuterChain == Len(chains)

\* the chains given to routes(middlewares)
RouterBases == {<<>>, <<"hFoo", "hEnvA">>}

\* the state after `const router = routes(middlewares)` and
\* `const app = chain().use(router)`
InitRouter ==
    /\ \E base \in RouterBases :
          /\ allowed = {"handle"} \cup {base[j] : j \in 1..Len(base)}
          /\ chains = IF base = <<>>
                      THEN <<EmptyChain, createHandler(<<"handle">>),
                             createHandler(<<IsoNames[1]>>)>>
                      ELSE <<EmptyChain, createHandler(base),
                             createHandler(RequestChain(base, <<"handle">>)),
                             createHandler(<<IsoNames[1]>>)>>
          /\ isoOf = <<Len(chains) - 1>>
    /\ stack = <<>>
    /\ calls = <<>>
    /\ exits = <<>>
    /\ result = NoValue
    /\ adapter = [passThrough |-> 0]
    /\ ran = FALSE
    /\ nextFid = 0
    /\ cblog = <<>>
    /\ made = <<>>
    /\ parked = NoParked
    /\ NoRouter

\* router.use(path, handler) and router.use(method, path, handler)
RouterUse(marg, path) ==
    /\ Len(paths) < MaxRoutes
    /\ paths' = Append(paths, path)
    /\ filters' = Append(filters, FilterOf(marg))
    /\ handlers' = Append(handlers, RouteHandlerNames[Len(handlers) + 1])
    /\ matcher' = Invalidate(matcher)
    /\ UNCHANGED <<allowed, chains, isoOf, stack, calls, exits, result, adapter, ran,
                   nextFid, cblog, made, parked, request, routed>>

\* the adapter calls router(context) or app(context) with a request; the logs
\* are those of the current request
Dispatch(c, req) ==
    /\ stack = <<>>
    /\ c \in {RunChain, OuterChain}
    /\ request' = req
    /\ ran' = TRUE
    /\ nextFid' = 1
    /\ stack' = <<NewFrame(stack, c, 0, 1)>>
    /\ calls' = <<>>
    /\ exits' = <<>>
    /\ cblog' = <<>>
    /\ routed' = <<>>
    /\ result' = NoValue
    /\ UNCHANGED <<allowed, chains, isoOf, adapter, made, parked, paths, filters, handlers, matcher>>

NextRouter ==
    \/ \E marg \in MethodArgs : \E path \in Patterns : RouterUse(marg, path)
    \/ \E c \in 1..Len(chains) : \E req \in Requests : Dispatch(c, req)
    \/ Call
    \/ Settle
    \/ EndRequest
    \/ Return

SpecRouter == InitRouter /\ [][NextRouter]_vars

----------------------------------------------------------------------------
(* Properties *)

Range(q) == {q[j] : j \in 1..Len(q)}

CallIds == 1..Len(calls)
ExitIds == 1..Len(exits)

\* the settled calls of the handler() call fid that returned a Response
ReturnedResponse(fid) == {k \in CallIds : /\ calls[k].fid = fid
                                          /\ calls[k].done
                                          /\ calls[k].ret.t = "response"}

\* a Response and its mutable copy are the same response
SameResponse(a, b) == a.status = b.status /\ a.by = b.by

\* C1: c.use(h) adds one new chain value and changes no existing chain value,
\* and a middleware called by an invocation of a chain is always a member of
\* the list that chain value was created with: use() calls made on the chain
\* before it is invoked add nothing to what it calls.
C1_UseIsPure ==
    /\ [][chains' # chains =>
            /\ Len(chains') = Len(chains) + 1
            /\ \A c \in 1..Len(chains) : chains'[c] = chains[c]]_vars
    /\ [](\A k \in CallIds : calls[k].h \in Range(chains[calls[k].chain].born))

\* C1 witness: a chain C was extended with a middleware h that is not in C,
\* then C was invoked, called a middleware and returned.
C1_Witness ==
    \E e \in ExitIds : \E d \in 1..Len(chains) :
        /\ exits[e].parent = 0
        /\ d > exits[e].chain
        /\ Len(chains[d].born) = Len(chains[exits[e].chain].born) + 1
        /\ SubSeq(chains[d].born, 1, Len(chains[d].born) - 1) = chains[exits[e].chain].born
        /\ chains[d].born[Len(chains[d].born)] \notin Range(chains[exits[e].chain].born)
        /\ \E k \in CallIds : calls[k].fid = exits[e].fid

\* C2: within one chain invocation the middlewares are called at strictly
\* increasing positions of the list, and when one is called every middleware
\* called before it in that invocation has settled.
C2_InOrderOneAtATime ==
    \A j, k \in CallIds :
        (j < k /\ calls[j].fid = calls[k].fid) =>
            /\ calls[j].idx < calls[k].idx
            /\ calls[j].done
            /\ calls[j].h = chains[calls[j].chain].list[calls[j].idx]

\* C2 witness: a middleware was called after an earlier one of the same
\* invocation that returned a promise (an async function or an isolated chain).
C2_Witness ==
    \E j, k \in CallIds :
        /\ j < k
        /\ calls[j].fid = calls[k].fid
        /\ \/ calls[j].h \in IsoSet
           \/ Beh(calls[j].h).async

\* C3: after a middleware of an invocation has returned a Response no later
\* middleware of that invocation is called, and when the response phase of the
\* invocation starts its response is the returned one (or its mutable copy).
C3_ResponseEndsRequestPhase ==
    /\ \A j, k \in CallIds :
          (j < k /\ calls[j].fid = calls[k].fid) => j \notin ReturnedResponse(calls[j].fid)
    /\ \A n \in 1..Len(stack) :
          (stack[n].pc = "resp" /\ stack[n].cbi = 0) =>
              \A k \in ReturnedResponse(stack[n].fid) : SameResponse(stack[n].response, calls[k].ret)

\* C3 witness: the response phase starts with the Response a middleware
\* returned while later middlewares of the list were never reached.
C3_Witness ==
    \E n \in 1..Len(stack) :
        /\ stack[n].pc = "resp"
        /\ stack[n].cbi = 0
        /\ stack[n].i < Len(chains[stack[n].chain].list)
        /\ ReturnedResponse(stack[n].fid) # {}

C5_NestedReturnsNothing ==
    /\ \A e \in ExitIds :
          (/\ exits[e].parent # 0
           /\ exits[e].val.t # "error"
           /\ \A k \in CallIds : calls[k].fid = exits[e].fid => calls[k].ret.t # "response")
          => exits[e].val.t = "none"
    /\ \A e \in ExitIds : exits[e].synth => exits[e].parent = 0
    /\ \A n \in 1..Len(stack) : stack[n].synth => stack[n].parent = 0

\* C5 witness: an invocation two levels below the outermost one returned
\* nothing and the outermost invocation returned the 404.
C5_Witness ==
    /\ result.t = "response"
    /\ result.status = 404
    /\ \E e \in ExitIds : Len(exits[e].path) = 3 /\ exits[e].val.t = "none"

\* the settled calls of an invocation whose plugin was merged into its context
Merged(j) == calls[j].applied /\ calls[j].ret.t = "plugin"

\* C6: a property a middleware returned in a plugin is read, with the returned
\* value, by every middleware called after it in the same invocation, and no
\* middleware called before it found the key defined on that invocation's context.
C6_ExtensionVisibleDownstream ==
    \A j, k \in CallIds :
        (calls[j].fid = calls[k].fid /\ Merged(j)) =>
            \A key \in DOMAIN calls[j].ret.props :
                /\ j < k => calls[k].props[key].val = calls[j].ret.props[key].val
                /\ k < j => calls[k].props[key].owner # calls[j].fid

\* the calls made inside the isolated chain whose wrapper was call w
Under(w) == {j \in CallIds : /\ j > w
                             /\ calls[j].fid # calls[w].fid
                             /\ calls[w].fid \in Range(calls[j].path)}

\* the calls with which the invocation of call w itself defined the key after w
OwnPropDefs(w, k, key) == {m \in CallIds : /\ w < m /\ m < k
                                           /\ calls[m].fid = calls[w].fid
                                           /\ Merged(m)
                                           /\ key \in DOMAIN calls[m].ret.props}
OwnEnvDefs(w, k, key) == {m \in CallIds : /\ w < m /\ m < k
                                          /\ calls[m].fid = calls[w].fid
                                          /\ Merged(m)
                                          /\ key \in DOMAIN calls[m].ret.env}

\* C7: when an isolated chain ran inside an invocation, every later middleware
\* of that invocation finds, for each property key and env key the isolated
\* chain's middlewares defined, exactly what the context showed when the
\* wrapper was called (absent when it was absent), unless the invocation's own
\* middlewares defined that key in between.
C7_IsolationHidesExtensions ==
    \A w, k \in CallIds :
        (w < k /\ calls[w].fid = calls[k].fid /\ calls[w].h \in IsoSet) =>
            \A j \in Under(w) : (j < k /\ Merged(j)) =>
                /\ \A key \in DOMAIN calls[j].ret.props :
                      OwnPropDefs(w, k, key) = {} => calls[k].props[key] = calls[w].props[key]
                /\ \A key \in DOMAIN calls[j].ret.env :
                      OwnEnvDefs(w, k, key) = {} =>
                          /\ calls[k].env[key] = calls[w].env[key]
                          /\ calls[k].envOwner[key] = calls[w].envOwner[key]

\* C7 witness: the isolated chain defined foo and a later middleware of the
\* enclosing chain found 'foo' in context false.
C7_Witness ==
    \E w, k \in CallIds :
        /\ w < k
        /\ calls[w].fid = calls[k].fid
        /\ calls[w].h \in IsoSet
        /\ \E j \in Under(w) : j < k /\ Merged(j) /\ "foo" \in DOMAIN calls[j].ret.props
        /\ calls[k].props["foo"].val = Absent

Occurrences(list, h) == {q \in 1..Len(list) : list[q] = h}
First(S) == CHOOSE q \in S : \A r \in S : q <= r
Latest(S) == CHOOSE q \in S : \A r \in S : r <= q
CallsOf(fid, h) == {k \in CallIds : calls[k].fid = fid /\ calls[k].h = h}

\* C8: a middleware is called at most once by one invocation of a chain, at
\* the position of its first occurrence in the list, and exactly once when the
\* request loop runs to the end of the list and the middleware was not already
\* in the cache the invocation inherited.
C8_DedupWithinChain ==
    /\ \A j, k \in CallIds :
          (j # k /\ calls[j].fid = calls[k].fid) => calls[j].h # calls[k].h
    /\ \A k \in CallIds :
          calls[k].idx = First(Occurrences(chains[calls[k].chain].list, calls[k].h))
    /\ \A e \in ExitIds :
          (exits[e].val.t # "error" /\ ~exits[e].brk) =>
              \A h \in Range(chains[exits[e].chain].list) \ exits[e].cache0 :
                  Cardinality(CallsOf(exits[e].fid, h)) = 1

\* C8 witness: an invocation ran to the end of a list that holds a middleware
\* twice and called it once.
C8_Witness ==
    \E e \in ExitIds : \E h \in Range(chains[exits[e].chain].list) :
        /\ exits[e].val.t # "error"
        /\ ~exits[e].brk
        /\ Cardinality(Occurrences(chains[exits[e].chain].list, h)) >= 2
        /\ Cardinality(CallsOf(exits[e].fid, h)) = 1

EnvDefs(k, key) == {j \in CallIds : /\ j < k
                                    /\ calls[j].fid = calls[k].fid
                                    /\ Merged(j)
                                    /\ key \in DOMAIN calls[j].ret.env}

\* C10 as claimed: env(key) is the value of the latest plugin that set the
\* key, whatever that value is, and the parent's env(key) for other keys.
C10_EnvReturnsLatest ==
    \A k \in CallIds : \A key \in EnvKeys :
        calls[k].env[key] = IF EnvDefs(k, key) # {}
                            THEN calls[Latest(EnvDefs(k, key))].ret.env[key]
                            ELSE calls[k].penv[key]

\* C10 as amended: env(key) is the value of the latest plugin that set the
\* key when that value is not undefined; otherwise it is the parent context's
\* env(key), and a key nobody defines yields undefined.
C10_EnvCoalesces ==
    \A k \in CallIds : \A key \in EnvKeys :
        LET own == IF EnvDefs(k, key) # {}
                   THEN calls[Latest(EnvDefs(k, key))].ret.env[key]
                   ELSE Undef IN
        /\ calls[k].env[key] = IF own # Undef THEN own ELSE calls[k].penv[key]
        /\ key = "U" => calls[k].env[key] = Undef

\* C10 witness: two middlewares set K, a later one read the second value and
\* read the adapter's value for P, which the second plugin set to undefined.
C10_Witness ==
    \E i, j, k \in CallIds :
        /\ i < j /\ j < k
        /\ calls[i].fid = calls[k].fid /\ calls[j].fid = calls[k].fid
        /\ calls[i].h = "hEnvA" /\ calls[j].h = "hEnvB"
        /\ calls[k].env["K"] = "b"
        /\ calls[k].env["P"] = "p"

----------------------------------------------------------------------------
(* passThrough *)

\* the calls made by the handler() call fid
CallsBy(fid) == {k \in CallIds : calls[k].fid = fid}

\* the handler() call an isolate() closure started when it was called
NestedFid(w) == calls[w].at + 1

\* the record of the return of the handler() call fid
ExitOf(fid) == CHOOSE e \in ExitIds : exits[e].fid = fid
Exited(fid) == \E e \in ExitIds : exits[e].fid = fid

\* the outermost handler() calls that returned after a passThrough request
PassedThrough == {e \in ExitIds : exits[e].parent = 0 /\ exits[e].spt /\ exits[e].val.t # "error"}

\* C11: a middleware whose body called context.passThrough() is the last one
\* its invocation calls, and the request loop is left only when that
\* middleware's result has settled: while the call is pending the invocation
\* is still in its loop, and once it has settled the loop has been left.
C11_PassThroughStopsLoop ==
    /\ \A j, k \in CallIds :
          (j < k /\ calls[j].fid = calls[k].fid) => ~Beh(calls[j].h).pass
    /\ \A n \in 1..Len(stack) :
          stack[n].spt =>
              LET k == Pending(calls, stack[n].fid) IN
              /\ Beh(calls[k].h).pass
              /\ IF stack[n].pc = "called"
                 THEN ~calls[k].done /\ ~stack[n].brk
                 ELSE calls[k].done /\ stack[n].brk /\ stack[n].pc # "loop"
    /\ \A e \in ExitIds :
          (exits[e].spt /\ exits[e].val.t # "error") =>
              /\ exits[e].brk
              /\ \A k \in CallsBy(exits[e].fid) : calls[k].done

\* C11 witness: an invocation returned after a middleware that returns a promise
\* called passThrough(), with middlewares of its list left that were never called.
C11_Witness ==
    \E e \in ExitIds :
        /\ exits[e].spt
        /\ exits[e].i < Len(chains[exits[e].chain].list)
        /\ \E k \in CallsBy(exits[e].fid) :
              /\ Beh(calls[k].h).pass /\ Beh(calls[k].h).async /\ calls[k].done
              /\ \A j \in CallsBy(exits[e].fid) : j <= k
        /\ \E q \in (exits[e].i + 1)..Len(chains[exits[e].chain].list) :
              chains[exits[e].chain].list[q] \notin exits[e].cache0
                  \cup {calls[k].h : k \in CallsBy(exits[e].fid)}

\* C12: an outermost invocation in which passThrough was requested returns the
\* synthesized 404 with none of the buffered headers on it, none of its
\* registered callbacks is called, and the adapter's passThrough() has been
\* called exactly once when it returns (and not before, and never again).
C12_PassThroughOutermost ==
    /\ \A e \in PassedThrough :
          /\ exits[e].val.t = "response"
          /\ exits[e].val.status = 404
          /\ exits[e].val.by = "notFound"
          /\ exits[e].val.headers = EmptyFn
          /\ \A c \in 1..Len(cblog) : cblog[c].fid # exits[e].fid
          /\ result = exits[e].val
    /\ adapter.passThrough = Cardinality(PassedThrough)
    /\ Cardinality(PassedThrough) <= 1

\* C12 witness: the middleware called passThrough() twice, after a header had
\* been buffered and a callback registered in the same invocation.
C12_Witness ==
    \E e \in PassedThrough :
        /\ exits[e].hdr # EmptyFn
        /\ exits[e].cbs # <<>>
        /\ \E k \in CallsBy(exits[e].fid) : PassThroughCalls(calls[k].h) = 2
        /\ adapter.passThrough = 1

\* C13: when passThrough was requested inside the invocation an isolate()
\* closure started, that invocation returns undefined, the adapter's
\* passThrough() is not called for it, and its caller neither sees the request
\* nor leaves its loop: the caller is back at the head of its loop, or has run
\* its list to the end.
C13_PassThroughIsolated ==
    /\ \A e \in ExitIds :
          (exits[e].parent # 0 /\ exits[e].spt /\ exits[e].val.t # "error") =>
              exits[e].val.t = "none"
    /\ adapter.passThrough = Cardinality(PassedThrough)
    /\ \A w \in CallIds :
          (/\ calls[w].h \in IsoSet
           /\ calls[w].done
           /\ Exited(NestedFid(w))
           /\ exits[ExitOf(NestedFid(w))].spt
           /\ \A k \in CallsBy(calls[w].fid) : k <= w) =>
              /\ calls[w].ret.t = "none"
              /\ \A n \in 1..Len(stack) :
                    stack[n].fid = calls[w].fid =>
                        /\ ~stack[n].spt /\ ~stack[n].brk
                        /\ \/ stack[n].pc = "loop"
                           \/ stack[n].i = Len(chains[stack[n].chain].list)
              /\ \A x \in ExitIds :
                    (exits[x].fid = calls[w].fid /\ exits[x].val.t # "error") =>
                        /\ ~exits[x].spt /\ ~exits[x].brk
                        /\ exits[x].i = Len(chains[exits[x].chain].list)

\* C13 witness: a middleware of the isolated chain called passThrough(), the
\* isolated chain returned undefined, and its caller then called the middleware
\* that follows the closure.
C13_Witness ==
    \E w, k \in CallIds :
        /\ calls[w].h \in IsoSet
        /\ Exited(NestedFid(w))
        /\ LET x == exits[ExitOf(NestedFid(w))] IN
              /\ x.spt
              /\ x.val.t = "none"
              /\ \E j \in CallsBy(x.fid) : Beh(calls[j].h).pass
        /\ k > w
        /\ calls[k].fid = calls[w].fid
        /\ calls[k].idx = calls[w].idx + 1
        /\ adapter.passThrough = 0

----------------------------------------------------------------------------
(* Response callbacks *)

\* the callbacks the middleware call k put on its invocation's responseChain:
\* those its body passed to context.onResponse, then the onResponse method of
\* the plugin it returned
RegisteredBy(k) ==
    Registers(calls[k].h) \o
        (IF Merged(k) /\ calls[k].ret.cb # "" THEN <<calls[k].ret.cb>> ELSE <<>>)

\* the registrations of the handler() call fid, in the order its middlewares ran
RECURSIVE RegistrationsUpTo(_, _)
RegistrationsUpTo(fid, k) ==
    IF k = 0 THEN <<>>
    ELSE RegistrationsUpTo(fid, k - 1) \o (IF calls[k].fid = fid THEN RegisteredBy(k) ELSE <<>>)
Registrations(fid) == RegistrationsUpTo(fid, Len(calls))

\* the callback calls the handler() call fid has made, in order
CbIds == 1..Len(cblog)
RECURSIVE CallbackLogUpTo(_, _)
CallbackLogUpTo(fid, k) ==
    IF k = 0 THEN <<>>
    ELSE CallbackLogUpTo(fid, k - 1) \o (IF cblog[k].fid = fid THEN <<cblog[k]>> ELSE <<>>)
CallbackLog(fid) == CallbackLogUpTo(fid, Len(cblog))

\* the handler() calls that returned a response at the end of their response phase
Responded == {e \in ExitIds : exits[e].val.t = "response" /\ ~exits[e].spt}

\* the outermost handler() calls in which no middleware returned a Response,
\* passThrough was not requested and nothing was thrown
Unanswered == {e \in ExitIds : /\ exits[e].parent = 0
                               /\ ~exits[e].spt
                               /\ exits[e].val.t # "error"
                               /\ ReturnedResponse(exits[e].fid) = {}}

\* the nested handler() calls in which no middleware returned a Response
NestedSilent == {e \in ExitIds : /\ exits[e].parent # 0
                                 /\ exits[e].val.t # "error"
                                 /\ ReturnedResponse(exits[e].fid) = {}}

\* C14: the callbacks of an invocation are called in the order of their
\* registration (the order in which the registering middlewares ran); each
\* receives what the callback before it left as the current response, which is
\* the Response that callback returned or, when it returned nothing, the one it
\* had received; the invocation returns what the last callback left.
C14_CallbacksInOrder ==
    \A fid \in 1..nextFid :
        LET L == CallbackLog(fid)
            R == Registrations(fid) IN
        /\ Len(L) <= Len(R)
        /\ \A j \in 1..Len(L) :
              /\ L[j].cb = R[j]
              /\ L[j].pos = j
              /\ j > 1 => L[j].got = L[j - 1].out
              /\ ~L[j].threw =>
                    L[j].out = IF L[j].ret.t = "response" THEN L[j].ret ELSE L[j].got
        /\ \A e \in Responded :
              exits[e].fid = fid =>
                  /\ Len(L) = Len(R)
                  /\ Len(L) > 0 => exits[e].val = L[Len(L)].out

\* C14 witness: two middlewares registered callbacks; one callback replaced the
\* response, a callback registered after it received the replacement and
\* returned nothing, and the replacement is what the invocation returned.
C14_Witness ==
    \E e \in Responded :
        LET L == CallbackLog(exits[e].fid) IN
        /\ \E j, k \in CallsBy(exits[e].fid) :
              j # k /\ RegisteredBy(j) # <<>> /\ RegisteredBy(k) # <<>>
        /\ \E i, j \in 1..Len(L) :
              /\ i < j
              /\ L[i].ret.t = "response"
              /\ L[i].got # L[i].ret
              /\ L[j].ret.t = "none"
              /\ L[j].got = L[i].ret
        /\ exits[e].val.by = "cbReplace"

\* C15: when an outermost invocation ends its request phase without a Response
\* and without passThrough, every callback its middlewares registered is
\* called, in order, and receives the synthesized 404 (with the buffered
\* headers on it) unless a callback before it returned another response.
C15_CallbacksSee404 ==
    \A e \in Unanswered :
        LET L == CallbackLog(exits[e].fid)
            R == Registrations(exits[e].fid) IN
        /\ exits[e].synth
        /\ Len(L) = Len(R)
        /\ \A j \in 1..Len(L) :
              /\ L[j].cb = R[j]
              /\ \/ /\ L[j].got.status = 404
                    /\ L[j].got.by = "notFound"
                 \/ \E i \in 1..(j - 1) : L[i].ret.t = "response"

\* C15 witness: callbacks registered both ways, with context.onResponse and as
\* the onResponse method of a plugin, each received the synthesized 404.
C15_Witness ==
    \E e \in Unanswered :
        LET L == CallbackLog(exits[e].fid) IN
        /\ \E k \in CallsBy(exits[e].fid) : Registers(calls[k].h) # <<>>
        /\ \E k \in CallsBy(exits[e].fid) : Merged(k) /\ calls[k].ret.cb # ""
        /\ Len(L) >= 2
        /\ \A j \in 1..Len(L) : L[j].got.status = 404 /\ L[j].got.by = "notFound"
        /\ exits[e].val.status = 404

\* C16: a nested invocation in which no middleware returned a Response returns
\* undefined without a response phase: it calls none of its callbacks, and the
\* headers it buffered are on no response: the response its outermost caller
\* synthesizes carries exactly the caller's own buffer.
C16_NestedSkipsResponsePhase ==
    \A x \in NestedSilent :
        /\ exits[x].val.t = "none"
        /\ ~exits[x].synth
        /\ exits[x].cbi = 0
        /\ \A c \in CbIds : cblog[c].fid # exits[x].fid
        /\ \A e \in Unanswered :
              (exits[e].fid \in Range(exits[x].path) /\ ~exits[e].replaced) =>
                  exits[e].val.headers = exits[e].hdr

\* C16 witness: the nested invocation had buffered a header and registered a
\* callback; its outermost caller returned a 404 without that header.
C16_Witness ==
    \E x \in NestedSilent : \E e \in Unanswered :
        /\ exits[x].hdrOwn
        /\ exits[x].hdr # EmptyFn
        /\ exits[x].cbs # <<>>
        /\ exits[e].fid \in Range(exits[x].path)
        /\ ~exits[e].replaced
        /\ exits[e].val.headers = EmptyFn

\* the callback functions
CallbackNames == {"cbReplace", "cbKeep", "cbSetHeader"}

\* how often cb occurs in a list of callbacks / of callback calls
TimesIn(R, cb) == Cardinality({j \in 1..Len(R) : R[j] = cb})
TimesCalled(L, cb) == Cardinality({j \in 1..Len(L) : L[j].cb = cb})

\* C17 as claimed: within one invocation no callback function is called twice.
C17_CallbackOncePerInvocation ==
    \A i, j \in CbIds :
        (i < j /\ cblog[i].fid = cblog[j].fid) => cblog[i].cb # cblog[j].cb

\* C17: an invocation that goes through its response phase calls a callback
\* function once for every time it was registered: each position of the
\* responseChain is called once, and nothing is skipped for having been
\* registered or called before.
C17_CallbackOncePerRegistration ==
    /\ \A i, j \in CbIds :
          (i < j /\ cblog[i].fid = cblog[j].fid) => cblog[i].pos < cblog[j].pos
    /\ \A e \in Responded :
          \A cb \in CallbackNames :
              TimesCalled(CallbackLog(exits[e].fid), cb) = TimesIn(Registrations(exits[e].fid), cb)

\* C17 witness: one callback function was registered twice and called twice.
C17_Witness ==
    \E e \in Responded : \E cb \in CallbackNames :
        /\ TimesIn(Registrations(exits[e].fid), cb) = 2
        /\ TimesCalled(CallbackLog(exits[e].fid), cb) = 2

----------------------------------------------------------------------------
(* Response headers *)

\* the call of the isolate() closure that started the handler() call fid
WrapperOf(fid) == CHOOSE w \in CallIds : calls[w].h \in IsoSet /\ NestedFid(w) = fid

\* what context[kResponseHeaders] held when the handler() call fid started
InheritedHeaders(fid) ==
    IF \E w \in CallIds : calls[w].h \in IsoSet /\ NestedFid(w) = fid
    THEN calls[WrapperOf(fid)].hdr
    ELSE EmptyFn

\* the entries h after the setHeader calls sets[j..]
RECURSIVE AfterSets(_, _, _)
AfterSets(h, sets, j) ==
    IF j > Len(sets) THEN h
    ELSE AfterSets([k \in DOMAIN h \cup {sets[j][1]} |->
                      IF k = sets[j][1] THEN sets[j][2] ELSE h[k]], sets, j + 1)

\* the inherited entries overwritten, call after call, by the setHeader calls
\* the middlewares of the handler() call fid made among the first k calls
RECURSIVE BufferedUpTo(_, _)
BufferedUpTo(fid, k) ==
    IF k = 0 THEN InheritedHeaders(fid)
    ELSE IF calls[k].fid = fid
         THEN AfterSets(BufferedUpTo(fid, k - 1), SetsHeaders(calls[k].h), 1)
    ELSE BufferedUpTo(fid, k - 1)
Buffered(fid) == BufferedUpTo(fid, Len(calls))

\* the headers of the response the request phase of fid ended with
BaseHeaders(fid) ==
    IF ReturnedResponse(fid) = {} THEN EmptyFn
    ELSE calls[CHOOSE k \in ReturnedResponse(fid) : TRUE].ret.headers

\* base with every buffered entry set on it
WithHeaders(base, h) ==
    [k \in DOMAIN base \cup DOMAIN h |-> IF k \in DOMAIN h THEN h[k] ELSE base[k]]

\* C18: when the response phase of an invocation starts, before any callback
\* has run, its response carries every header its middlewares set with
\* setHeader, with the value of the last call for each name, also when the
\* response is the 404 made after those calls; the invocation returns it that
\* way unless a callback replaces the response.
C18_BufferedHeadersApplied ==
    /\ \A n \in 1..Len(stack) :
          (stack[n].pc = "resp" /\ stack[n].cbi = 0) =>
              stack[n].response.headers =
                  WithHeaders(BaseHeaders(stack[n].fid), Buffered(stack[n].fid))
    /\ \A c \in CbIds :
          cblog[c].pos = 1 =>
              cblog[c].got.headers =
                  WithHeaders(BaseHeaders(cblog[c].fid), Buffered(cblog[c].fid))
    /\ \A e \in Responded :
          ~exits[e].replaced =>
              exits[e].val.headers =
                  WithHeaders(BaseHeaders(exits[e].fid), Buffered(exits[e].fid))

\* C18 witness: two middlewares set the same name and no middleware returned
\* a Response; the returned 404 has the value of the later call, and a name
\* only the earlier one set.
C18_Witness ==
    \E e \in Unanswered : \E j, k \in CallsBy(exits[e].fid) :
        /\ j < k
        /\ SetsHeaders(calls[j].h) = << <<"x", "2">>, <<"y", "2">> >>
        /\ SetsHeaders(calls[k].h) = << <<"x", "1">> >>
        /\ exits[e].val.status = 404
        /\ exits[e].val.headers = [h \in {"x", "y"} |-> IF h = "x" THEN "1" ELSE "2"]

\* the calls of isolate() closures whose invocation has returned to the caller
ReturnedWrappers == {w \in CallIds : calls[w].h \in IsoSet /\ calls[w].done}

\* C19: what the caller's context[kResponseHeaders] holds when the invocation
\* started by an isolate() closure has returned is what it held when the
\* closure was called, whatever setHeader calls were made inside; an invocation
\* that called setHeader has a Headers object of its own, holding the inherited
\* entries overwritten by its own calls.
C19_SetHeaderKeepsParentBuffer ==
    /\ \A w \in ReturnedWrappers :
          /\ \A k \in CallsBy(calls[w].fid) :
                (k > w /\ \A j \in CallsBy(calls[w].fid) : j <= w \/ j >= k) =>
                    calls[k].hdr = calls[w].hdr /\ calls[k].hdrOwn = calls[w].hdrOwn
          /\ \A n \in 1..Len(stack) :
                (stack[n].fid = calls[w].fid /\ \A j \in CallsBy(calls[w].fid) : j <= w) =>
                    /\ ResponseHeaders(stack, n).h = calls[w].hdr
                    /\ stack[n].ownHdr = calls[w].hdrOwn
          /\ \A e \in ExitIds :
                (exits[e].fid = calls[w].fid /\ \A j \in CallsBy(calls[w].fid) : j <= w) =>
                    /\ exits[e].hdrOwn = calls[w].hdrOwn
                    /\ exits[e].hdrOwn => exits[e].hdr = calls[w].hdr
    /\ \A e \in ExitIds :
          /\ exits[e].hdrOwn <=> \E k \in CallsBy(exits[e].fid) : SetsHeaders(calls[k].h) # <<>>
          /\ exits[e].hdrOwn => exits[e].hdr = Buffered(exits[e].fid)

\* C19 witness: the caller had buffered two headers; the nested invocation
\* overwrote one of them in its own copy, which kept the other; the caller
\* returned with the two headers it had buffered.
C19_Witness ==
    \E w \in ReturnedWrappers : \E e \in ExitIds :
        LET x == exits[ExitOf(NestedFid(w))] IN
        /\ calls[w].hdrOwn
        /\ calls[w].hdr = [h \in {"x", "y"} |-> "2"]
        /\ x.hdrOwn
        /\ x.hdr = [h \in {"x", "y"} |-> IF h = "x" THEN "1" ELSE "2"]
        /\ exits[e].fid = calls[w].fid
        /\ exits[e].hdr = calls[w].hdr

\* C20: setHeader is callable on an invocation's context exactly until its
\* response phase starts; a callback that calls it then throws at the call,
\* the header buffer and the current response are as they were, no further
\* callback runs and the invocation rejects.
C20_SetHeaderDisabled ==
    /\ \A n \in 1..Len(stack) : stack[n].setHeader <=> stack[n].pc # "resp"
    /\ \A c \in CbIds :
          CbSetsHeaders(cblog[c].cb) # <<>> =>
              /\ cblog[c].threw
              /\ cblog[c].hdrAfter = cblog[c].hdrBefore
              /\ cblog[c].out = cblog[c].got
              /\ \A d \in CbIds : d > c => cblog[d].fid # cblog[c].fid
              /\ Exited(cblog[c].fid)
              /\ exits[ExitOf(cblog[c].fid)].val.t = "error"
              /\ result.t = "error"

\* C20 witness: a callback called setHeader after an earlier callback of the
\* same invocation had run, and the invocation rejected.
C20_Witness ==
    \E c, d \in CbIds :
        /\ d < c
        /\ cblog[d].fid = cblog[c].fid
        /\ ~cblog[d].threw
        /\ CbSetsHeaders(cblog[c].cb) # <<>>
        /\ cblog[c].threw
        /\ result.t = "error"

----------------------------------------------------------------------------
(* Redefinition of a context property *)

\* C21: when two different middlewares of one invocation each return a
\* plugin that defines the same property key, the second definition throws:
\* the second plugin is never merged, and no later middleware of the
\* invocation reads a value other than the first one.
C21_RedefinitionFails ==
    \A j, k \in CallIds :
        (/\ j < k
         /\ calls[j].fid = calls[k].fid
         /\ calls[j].h # calls[k].h
         /\ Merged(j)
         /\ calls[k].done
         /\ calls[k].ret.t = "plugin") =>
            \A key \in DOMAIN calls[j].ret.props \cap DOMAIN calls[k].ret.props :
                /\ ~calls[k].applied
                /\ \A m \in CallIds :
                       (m > k /\ calls[m].fid = calls[j].fid) =>
                           calls[m].props[key].val = calls[j].ret.props[key].val

----------------------------------------------------------------------------
(* Responses with immutable headers *)

\* the settled middleware calls of the handler() call fid that returned a
\* Response whose type is not "default"
ReturnedImmutable(fid) == {k \in ReturnedResponse(fid) : Immutable(calls[k].ret)}

\* the response callbacks that set a header on the response they receive
HeaderCallbacks(fid) ==
    {c \in CbIds : cblog[c].fid = fid /\ CbSetsResponseHeaders(cblog[c].cb) # <<>>}

\* C22: when a middleware returned a Response whose type is not "default",
\* the response phase of the invocation works on a mutable Response with the
\* same status and body: it carries the buffered headers before the first
\* callback runs, no callback that sets a header on it throws, and the
\* returned response has the header such a callback set.
C22_NonDefaultResponseCloned ==
    /\ \A n \in 1..Len(stack) : \A k \in ReturnedImmutable(stack[n].fid) :
          stack[n].pc = "resp" =>
              /\ ~Immutable(stack[n].response)
              /\ stack[n].response.status = calls[k].ret.status
              /\ stack[n].response.body = calls[k].ret.body
              /\ stack[n].cbi = 0 =>
                     stack[n].response.headers =
                         WithHeaders(calls[k].ret.headers, Buffered(stack[n].fid))
    /\ \A c \in CbIds : \A k \in ReturnedImmutable(cblog[c].fid) :
          /\ ~cblog[c].threw
          /\ ~Immutable(cblog[c].got)
          /\ cblog[c].got.status = calls[k].ret.status
          /\ cblog[c].got.body = calls[k].ret.body
          /\ \A name \in DOMAIN Buffered(cblog[c].fid) : name \in DOMAIN cblog[c].got.headers
    /\ \A e \in ExitIds : \A k \in ReturnedImmutable(exits[e].fid) :
          /\ exits[e].val.t = "response"
          /\ exits[e].val.status = calls[k].ret.status
          /\ exits[e].val.body = calls[k].ret.body
          /\ \A c \in HeaderCallbacks(exits[e].fid) :
                exits[e].val.headers["x-test"] = "test"

\* C22 witness: a middleware returned the Response of fetch() after another
\* one registered a callback that sets x-test and a third one called
\* setHeader; the invocation returned status 200 with the fetched body and
\* both headers.
C22_Witness ==
    /\ \E k \in CallIds : calls[k].done /\ calls[k].ret.rtype = "basic"
    /\ \E c \in CbIds : cblog[c].cb = "cbTest" /\ cblog[c].got.rtype = "default"
    /\ result.t = "response"
    /\ result.status = 200
    /\ result.body = "Hello, world!"
    /\ result.headers = [h \in {"x", "x-test"} |-> IF h = "x" THEN "1" ELSE "test"]

----------------------------------------------------------------------------
(* chain(middleware?) *)

MadeIds == 1..Len(made)

\* C23: chain() returns a new chain value with an empty handler list,
\* chain(h) a new chain value whose list is <<h>>, and chain(c) for a chain
\* value c returns c itself and creates nothing, so that chain(chain(c)) is c.
C23_ChainConstructor ==
    /\ \A k \in MadeIds :
          LET m == made[k] IN
          /\ m.arg.kind = "none" =>
                /\ m.ret = m.before + 1 /\ m.after = m.before + 1
                /\ chains[m.ret].list = <<>>
          /\ m.arg.kind = "fn" =>
                /\ m.ret = m.before + 1 /\ m.after = m.before + 1
                /\ chains[m.ret].list = <<m.arg.h>>
          /\ m.arg.kind = "chain" =>
                /\ m.ret = m.arg.c
                /\ m.after = m.before
    /\ \A j, k \in MadeIds :
          (/\ j < k
           /\ made[j].arg.kind = "chain"
           /\ made[k].arg.kind = "chain"
           /\ made[k].arg.c = made[j].ret) => made[k].ret = made[j].arg.c

\* C23 witness: chain(h) made c with the list <<h>>, and chain(chain(c))
\* returned c.
C23_Witness ==
    \E i, j, k \in MadeIds :
        /\ i < j /\ j < k
        /\ made[i].arg.kind = "fn"
        /\ chains[made[i].ret].list = <<made[i].arg.h>>
        /\ made[j].arg.kind = "chain" /\ made[j].arg.c = made[i].ret
        /\ made[k].arg.kind = "chain" /\ made[k].arg.c = made[j].ret
        /\ made[k].ret = made[i].ret

----------------------------------------------------------------------------
(* Merging a chain *)

ChainIds == 1..Len(chains)

\* the chain value m begins with the middlewares of a followed by those of b
BeginsWith(m, a, b) ==
    /\ chains[b].list # <<>>
    /\ Len(chains[m].list) >= Len(chains[a].list) + Len(chains[b].list)
    /\ SubSeq(chains[m].list, 1, Len(chains[a].list) + Len(chains[b].list)) =
           chains[a].list \o chains[b].list

\* the calls of the invocation of call j, before call k, whose plugin defined key
DefsBefore(j, k, key) == {d \in CallIds : /\ d < k
                                          /\ calls[d].fid = calls[j].fid
                                          /\ Merged(d)
                                          /\ key \in DOMAIN calls[d].ret.props}

\* what an invocation of a chain that begins with a's middlewares followed by
\* b's shows: b's middlewares are called after a's and before the later ones,
\* and a property one of them returned is an own property of the invocation's
\* context when a later middleware is called (with the value of the latest
\* definition the invocation made)
MergedRunsInline ==
    \A a, b, m \in ChainIds :
        BeginsWith(m, a, b) =>
            LET la == Len(chains[a].list)
                lb == Len(chains[b].list) IN
            \A j, k \in CallIds :
                (/\ calls[j].fid = calls[k].fid
                 /\ calls[j].chain = m
                 /\ calls[j].idx > la /\ calls[j].idx <= la + lb) =>
                    /\ calls[j].h = chains[b].list[calls[j].idx - la]
                    /\ calls[k].idx <= la => k < j
                    /\ calls[k].idx > la + lb => j < k
                    /\ (calls[k].idx > la + lb /\ Merged(j)) =>
                          \A key \in DOMAIN calls[j].ret.props :
                              /\ calls[k].props[key].owner = calls[j].fid
                              /\ calls[k].props[key].val =
                                   calls[Latest(DefsBefore(j, k, key))].ret.props[key].val

----------------------------------------------------------------------------
(* isolate() of a chain without middlewares *)

\* the chain value the isolate() closure of call w wraps
WrappedBy(w) == isoOf[IsoIndex(calls[w].h)]

----------------------------------------------------------------------------
(* Router dispatch *)

RoutedIds == 1..Len(routed)

\* the callback calls of the handle() call d
TriedIds(d) == 1..Len(routed[d].tried)

\* the callback calls of the handle() call d that called a route handler
Invoked(d) == {t \in TriedIds(d) : routed[d].tried[t].accepted}

\* C26: a route handler is called with a context whose method is the
\* request's method and whose params are the parameters the matcher extracted
\* from the pathname for that route's pattern, both assigned before the call;
\* for the pattern /users/:id and the pathname /users/123, params.id is "123".
C26_HandlerSeesMethodAndParams ==
    \A d \in RoutedIds : \A t \in Invoked(d) :
        LET c == routed[d].tried[t]
            m == MatchPath(routed[d].paths[c.index], routed[d].pathname) IN
        /\ m.ok
        /\ c.handler = routed[d].handlers[c.index]
        /\ c.seen.set
        /\ c.seen.method = routed[d].method
        /\ c.seen.params = m.params
        /\ c.params = m.params
        /\ (routed[d].paths[c.index] = <<"users", ":id">>
              /\ routed[d].pathname = <<"users", "123">>) =>
               c.seen.params = [n \in {"id"} |-> "123"]

\* C26 witness: /users/:id is registered, GET /users/123 was dispatched, the
\* handler saw method GET and params.id = "123", and its Response was returned.
C26_Witness ==
    /\ \E d \in RoutedIds : \E t \in Invoked(d) :
          /\ routed[d].paths[routed[d].tried[t].index] = <<"users", ":id">>
          /\ routed[d].method = "GET"
          /\ routed[d].tried[t].seen.method = "GET"
          /\ routed[d].tried[t].seen.params = [n \in {"id"} |-> "123"]
          /\ result.t = "response"
          /\ result.by = routed[d].tried[t].handler

----------------------------------------------------------------------------
(* Method filters *)

\* the methods a router.use call with this first argument is meant to accept
AcceptedMethods(marg) ==
    IF marg.kind \in {"absent", "star"} THEN Methods
    ELSE {m \in Methods : \E j \in 1..Len(marg.ms) : marg.ms[j] = m}

\* the route handlers were called for the methods their filters accept only
FilterDecides ==
    \A d \in RoutedIds : \A t \in TriedIds(d) :
        LET c == routed[d].tried[t]
            f == routed[d].filters[c.index] IN
        /\ c.accepted <=> (\/ f.kind = "null"
                           \/ \E j \in 1..Len(f.ms) : f.ms[j] = routed[d].method)
        /\ ~c.accepted => c.handler = ""
        /\ f.kind = "equals" => Len(f.ms) = 1

\* C27: a route registered without a method or with '*' accepts every
\* request method, one registered with a single method accepts that method
\* only, one registered with an array accepts exactly the array's members; a
\* route handler is never called for a method its route does not accept.
C27_MethodFilter ==
    /\ []FilterDecides
    /\ [][\A marg \in MethodArgs : \A path \in Patterns :
             RouterUse(marg, path) =>
                 \A m \in Methods :
                     Accepts(filters'[Len(filters')], m) <=> m \in AcceptedMethods(marg)]_vars

\* C27 witness: DELETE /x with the routes (['GET', 'POST'], '/x') and
\* ('*', '/x'): the matcher reported the first one, whose handler was not
\* called, and then the second one, whose handler was called.
C27_Witness ==
    \E d \in RoutedIds :
        /\ routed[d].method = "DELETE"
        /\ Len(routed[d].tried) = 2
        /\ routed[d].filters[routed[d].tried[1].index] =
               [kind |-> "includes", ms |-> <<"GET", "POST">>]
        /\ ~routed[d].tried[1].accepted
        /\ routed[d].filters[routed[d].tried[2].index] = NullFilter
        /\ routed[d].tried[2].accepted
        /\ routed[d].tried[2].handler # ""

----------------------------------------------------------------------------
(* Falling through to the next candidate *)

\* the routes whose pattern matches the pathname of the handle() call d, in
\* the order of the matcher that call used
Candidates(d) ==
    LET Matches(i) == MatchPath(routed[d].compiledFrom[i], routed[d].pathname).ok IN
    SelectSeq(routed[d].order, Matches)

\* the filter f lets the method m through
MethodOk(f, m) == f.kind = "null" \/ \E j \in 1..Len(f.ms) : f.ms[j] = m

\* the positions among the candidates whose filter accepts the request's method
Accepting(d) ==
    {j \in 1..Len(Candidates(d)) :
        MethodOk(routed[d].filters[Candidates(d)[j]], routed[d].method)}

\* C28: the callback is called for the matcher's candidates in the matcher's
\* order; a candidate whose filter rejects the method does not end the lookup;
\* the handler of the first candidate whose filter accepts is called, no
\* other handler is, and handle returns what it returned; when no candidate
\* accepts, every candidate was tried and no handler was called.
C28_FirstAcceptingCandidate ==
    \A d \in RoutedIds :
        LET cs == Candidates(d)
            tr == routed[d].tried IN
        IF Accepting(d) = {}
        THEN /\ Len(tr) = Len(cs)
             /\ \A j \in 1..Len(tr) : tr[j].index = cs[j] /\ ~tr[j].accepted
             /\ routed[d].ret.t = "none"
        ELSE LET first == First(Accepting(d)) IN
             /\ Len(tr) = first
             /\ \A j \in 1..first : tr[j].index = cs[j] /\ (tr[j].accepted <=> j = first)
             /\ tr[first].handler = routed[d].handlers[cs[first]]
             /\ routed[d].ret = RouteBeh(routed[d].handlers[cs[first]])

\* C28 witness: GET /x and POST /x are registered in this order and the
\* matcher reports them in this order; for POST /x the GET route was tried and
\* its handler not called, the POST handler was called, and its Response is
\* the result.
C28_Witness ==
    \E d \in RoutedIds :
        /\ routed[d].method = "POST"
        /\ routed[d].paths = << <<"x">>, <<"x">> >>
        /\ routed[d].filters = <<[kind |-> "equals", ms |-> <<"GET">>],
                                 [kind |-> "equals", ms |-> <<"POST">>]>>
        /\ Len(routed[d].tried) = 2
        /\ routed[d].tried[1].index = 1 /\ ~routed[d].tried[1].accepted
        /\ routed[d].tried[2].index = 2 /\ routed[d].tried[2].accepted
        /\ result.t = "response"
        /\ result.by = routed[d].handlers[2]

----------------------------------------------------------------------------
(* A request no route accepts *)

\* the handle() calls in which no route accepted path and method
Unrouted == {d \in RoutedIds : Accepting(d) = {}}

\* the returns of the chain the router runs for the handle() call d
RunExits(d) == {e \in ExitIds : exits[e].fid = routed[d].fid /\ exits[e].chain = RunChain}

\* C29 as stated: when no route accepts the request, no route handler is
\* called and the router invocation returns nothing.
C29_NoMatchYieldsNothing ==
    \A d \in Unrouted :
        /\ Invoked(d) = {}
        /\ \A e \in RunExits(d) : exits[e].val.t = "none"

\* C29: when no route accepts the request, no route handler is called and
\* handle returns nothing to the chain that runs it; the router invocation
\* returns what that chain returns for an unanswered request: nothing when
\* the router was called by an enclosing chain, the chain's 404 Response
\* when it was called with the adapter's context.
C29_NoMatchFallsToChain ==
    \A d \in Unrouted :
        /\ Invoked(d) = {}
        /\ routed[d].ret.t = "none"
        /\ ~routed[d].route.set
        /\ \A e \in RunExits(d) :
              IF exits[e].parent # 0
              THEN exits[e].val.t = "none"
              ELSE /\ exits[e].val.t = "response"
                   /\ exits[e].val.status = 404
                   /\ exits[e].val.by = "notFound"
                   /\ exits[e].synth

\* C29 witness: DELETE /x with the only route (['GET', 'POST'], '/x'),
\* dispatched as router(context) with the adapter's context: the route was
\* tried, its handler was not called, and the invocation returned a 404.
C29_Witness ==
    \E d \in Unrouted : \E e \in RunExits(d) :
        /\ routed[d].method = "DELETE"
        /\ routed[d].pathname = <<"x">>
        /\ routed[d].filters = <<[kind |-> "includes", ms |-> <<"GET", "POST">>]>>
        /\ Len(routed[d].tried) = 1
        /\ ~routed[d].tried[1].accepted
        /\ exits[e].parent = 0
        /\ result.t = "response"
        /\ result.status = 404

----------------------------------------------------------------------------
(* The compiled matcher *)

\* the sequence q names every index 1..n once
CoversAll(q, n) == Len(q) = n /\ \A i \in 1..n : \E j \in 1..n : q[j] = i

\* C30: at every moment the cached matcher is absent or compiled from the
\* complete current list of paths, and the three route arrays have the same
\* length; every handle() call looked the pathname up in a matcher compiled
\* from all the routes registered when it ran.
C30_MatcherIsCurrent ==
    /\ Len(filters) = Len(paths)
    /\ Len(handlers) = Len(paths)
    /\ matcher.compiled => /\ matcher.paths = paths
                           /\ CoversAll(matcher.order, Len(paths))
    /\ \A d \in RoutedIds :
          /\ routed[d].compiledFrom = routed[d].paths
          /\ CoversAll(routed[d].order, Len(routed[d].paths))
          /\ Len(routed[d].filters) = Len(routed[d].paths)
          /\ Len(routed[d].handlers) = Len(routed[d].paths)

\* C30 witness: a handle() call reused the matcher an earlier dispatch had
\* compiled from the one route registered then; afterwards router.use
\* registered a second route and the cached matcher is absent again.
C30_Witness ==
    \E d \in RoutedIds :
        /\ routed[d].cached
        /\ Len(routed[d].compiledFrom) = 1
        /\ Len(routed[d].tried) = 1
        /\ Len(paths) = 2
        /\ ~matcher.compiled

----------------------------------------------------------------------------
(* A router with a base chain *)

\* the middleware call in which the handle() call d ran
HandleCall(d) == CHOOSE k \in CallIds : calls[k].h = "handle" /\ calls[k].fid = routed[d].fid

\* the middlewares of the chain given to routes(middlewares)
BaseOf(list) == SubSeq(list, 1, Len(list) - 1)

\* C31: for a router made with a base chain, every middleware of the base
\* chain was called before the route handler, by the same handler() call and
\* so on the same derived context, and the context the route handler is
\* called with shows the properties and env values those middlewares returned.
C31_BaseChainRunsFirst ==
    \A d \in RoutedIds : \A t \in Invoked(d) :
        LET k == HandleCall(d)
            base == BaseOf(chains[RunChain].list) IN
        /\ calls[k].chain = RunChain
        /\ calls[k].idx = Len(base) + 1
        /\ \A b \in 1..Len(base) :
              \E j \in CallIds :
                  /\ j < k
                  /\ calls[j].fid = calls[k].fid
                  /\ calls[j].h = base[b] /\ calls[j].idx = b
                  /\ calls[j].done /\ Merged(j)
                  /\ \A key \in DOMAIN calls[j].ret.props :
                        /\ calls[k].props[key].owner = calls[k].fid
                        /\ calls[k].props[key].val = calls[j].ret.props[key].val
                  /\ \A key \in DOMAIN calls[j].ret.env :
                        /\ calls[k].env[key] = calls[j].ret.env[key]
                        /\ calls[k].envOwner[key] = calls[k].fid

\* C31 witness: routes(app) with two base middlewares, one returning foo and
\* one returning env.K; the route handler was called with a context that
\* shows both, and its Response was returned.
C31_Witness ==
    \E d \in RoutedIds : \E t \in Invoked(d) :
        /\ BaseOf(chains[RunChain].list) = <<"hFoo", "hEnvA">>
        /\ calls[HandleCall(d)].props["foo"].val = "v1"
        /\ calls[HandleCall(d)].env["K"] = "a"
        /\ result.t = "response"
        /\ result.by = routed[d].tried[t].handler

----------------------------------------------------------------------------
(* Errors *)

\* the settled middleware calls whose await threw, and the callback calls that threw
ThrowingCalls == {k \in CallIds : calls[k].done /\ calls[k].ret.t = "error"}
ThrowingCallbacks == {c \in CbIds : cblog[c].threw}

\* every handler() call on the path rejected with err, and so did the request
AbortedWith(path, err) ==
    /\ stack = <<>>
    /\ result = err
    /\ \A fid \in Range(path) : /\ Exited(fid)
                                /\ exits[ExitOf(fid)].val = err

\* C32: when a request handler throws or rejects, or a response callback
\* throws, every enclosing handler() call, the isolated ones included, rejects
\* with that same error; the throwing call is the last middleware call (or the
\* last callback call) of the request, an error in the request phase leaves no
\* synthesized 404 and no callback call in any of the aborted invocations, and
\* nothing is called once the request has rejected.
C32_ErrorsPropagate ==
    /\ [](/\ \A k \in ThrowingCalls :
               /\ k = Len(calls)
               /\ AbortedWith(calls[k].path, calls[k].ret)
               /\ \A fid \in Range(calls[k].path) :
                    /\ ~exits[ExitOf(fid)].synth
                    /\ \A c \in CbIds : cblog[c].fid # fid
          /\ \A c \in ThrowingCallbacks :
               /\ c = Len(cblog)
               /\ Exited(cblog[c].fid)
               /\ AbortedWith(exits[ExitOf(cblog[c].fid)].path, cblog[c].ret))
    /\ [][result.t = "error" => UNCHANGED <<calls, cblog, exits, result, stack>>]_vars

\* a middleware of an isolated chain rejected while the enclosing invocation had
\* a middleware left to call
C32_Witness ==
    \E k \in ThrowingCalls :
      /\ Len(calls[k].path) = 2
      /\ calls[k].ret = Thrown("hThrow")
      /\ LET e == exits[ExitOf(calls[k].path[1])] IN
           /\ e.i < Len(chains[e.chain].list)
           /\ e.val = Thrown("hThrow")

\* a middleware rejected after a response callback was registered
C32_RegisteredWitness ==
    \E k \in ThrowingCalls : exits[ExitOf(calls[k].fid)].cbs # <<>>

\* a callback threw with a callback registered after it
C32_CallbackWitness ==
    \E c \in ThrowingCallbacks :
      /\ cblog[c].ret = Thrown("cbThrow")
      /\ cblog[c].pos < Len(exits[ExitOf(cblog[c].fid)].cbs)

\* a callback of an isolated chain threw
C32_NestedCallbackWitness ==
    \E c \in ThrowingCallbacks :
      /\ cblog[c].ret = Thrown("cbThrow")
      /\ Len(exits[ExitOf(cblog[c].fid)].path) = 2

----------------------------------------------------------------------------
(* Requests in flight at once *)

\* how many times the adapter calls the chain, and how many of these requests
\* are in flight at once; the last request arrives when the others have settled
MaxRequests == 3
MaxInFlight == 2

\* The programs that serve several requests: one with an extension, a buffered
\* header, a callback and a response; one with a repeated middleware, an
\* isolated chain and a pass-through.
ConcurrentPrograms ==
    { [chains |-> <<EmptyChain,
                    createHandler(<<"hFoo", "hHdrA", "hReg", "hResp">>)>>,
       isoOf |-> <<>>],
      [chains |-> <<EmptyChain,
                    createHandler(<<"hFoo", "hReg", "hFoo2">>),
                    createHandler(<<"hFoo", IsoNames[1], "hFoo", "hPass">>)>>,
       isoOf |-> <<2>>] }

InitConcurrent ==
    /\ \E prog \in ConcurrentPrograms :
          /\ chains = prog.chains
          /\ isoOf = prog.isoOf
    /\ allowed = {}
    /\ stack = <<>>
    /\ calls = <<>>
    /\ exits = <<>>
    /\ result = NoValue
    /\ adapter = [passThrough |-> 0]
    /\ ran = TRUE
    /\ nextFid = 0
    /\ cblog = <<>>
    /\ made = <<>>
    /\ parked = NoParked
    /\ NoRouter

\* the running request is suspended: its handler() awaits a middleware's
\* promise (line 110) or a response callback's (line 171)
AtAwait(stk) ==
    /\ stk # <<>>
    /\ \/ stk[Len(stk)].pc = "called"
       \/ stk[Len(stk)].pc = "resp" /\ stk[Len(stk)].cbi > 0

\* the requests that have been started and have not settled
InFlight == Len(parked.waiting) + (IF stack = <<>> THEN 0 ELSE 1)

\* the adapter calls the chain with its context object while no request runs
Request(c) ==
    /\ parked.started < MaxRequests
    /\ InFlight < MaxInFlight
    /\ parked.started = MaxRequests - 1 => InFlight = 0
    /\ c = Len(chains)
    /\ stack = <<>> \/ AtAwait(stack)
    /\ parked' = [waiting |-> IF stack = <<>> THEN parked.waiting
                              ELSE Append(parked.waiting, stack),
                  started |-> parked.started + 1]
    /\ nextFid' = nextFid + 1
    /\ stack' = <<NewFrame(<<>>, c, 0, nextFid + 1)>>
    /\ UNCHANGED <<allowed, chains, isoOf, calls, exits, result, adapter, ran, cblog,
                   made, routerVars>>

\* the event loop continues a suspended request
Resume(i) ==
    /\ i \in 1..Len(parked.waiting)
    /\ stack = <<>> \/ AtAwait(stack)
    /\ stack' = parked.waiting[i]
    /\ parked' = [parked EXCEPT !.waiting =
                     LET rest == SubSeq(@, 1, i - 1) \o SubSeq(@, i + 1, Len(@)) IN
                     IF stack = <<>> THEN rest ELSE Append(rest, stack)]
    /\ UNCHANGED <<allowed, chains, isoOf, calls, exits, result, adapter, ran, nextFid,
                   cblog, made, routerVars>>

NextConcurrent ==
    \/ \E c \in 1..Len(chains) : Request(c)
    \/ \E i \in 1..MaxInFlight : Resume(i)
    \/ Skip
    \/ Call
    \/ Settle
    \/ EndRequest
    \/ RunCallback
    \/ Return

SpecConcurrent == InitConcurrent /\ [][NextConcurrent]_vars

\* the requests that have settled, each named by the fid of its handler() call
Settled == {exits[e].fid : e \in {x \in 1..Len(exits) : exits[x].parent = 0}}

\* what one middleware call of a request looked like, without the ids
Depth(path, fid) == IF fid = 0 THEN 0 ELSE CHOOSE d \in 1..Len(path) : path[d] = fid
CallView(x) == [h |-> x.h, idx |-> x.idx, depth |-> Len(x.path),
                props |-> [k \in DOMAIN x.props |->
                             [val |-> x.props[k].val,
                              owner |-> Depth(x.path, x.props[k].owner)]],
                env |-> x.env, ret |-> x.ret, applied |-> x.applied,
                hdrOwn |-> x.hdrOwn, hdr |-> x.hdr]
CallIdsOf(r) == {k \in 1..Len(calls) : calls[k].path[1] = r}
RECURSIVE TraceUpTo(_, _)
TraceUpTo(r, k) ==
    IF k = 0 THEN <<>>
    ELSE TraceUpTo(r, k - 1) \o (IF calls[k].path[1] = r THEN <<CallView(calls[k])>> ELSE <<>>)
Trace(r) == TraceUpTo(r, Len(calls))

\* the response callback calls of a settled request, without the ids
CallbackView(x) == [cb |-> x.cb, pos |-> x.pos, depth |-> Len(exits[ExitOf(x.fid)].path),
                    got |-> x.got, ret |-> x.ret, threw |-> x.threw, out |-> x.out]
RECURSIVE CallbackTraceUpTo(_, _)
CallbackTraceUpTo(r, k) ==
    IF k = 0 THEN <<>>
    ELSE CallbackTraceUpTo(r, k - 1) \o
         (IF Exited(cblog[k].fid) /\ exits[ExitOf(cblog[k].fid)].path[1] = r THEN <<CallbackView(cblog[k])>> ELSE <<>>)
CallbackTrace(r) == CallbackTraceUpTo(r, Len(cblog))

\* what a settled request returned and how it ended
Outcome(r) == LET e == exits[ExitOf(r)] IN
              [val |-> e.val, spt |-> e.spt, synth |-> e.synth, i |-> e.i,
               cbs |-> e.cbs, hdr |-> e.hdr, replaced |-> e.replaced]

\* C33: the requests served by one chain value, whether they ran one after the
\* other or interleaved at their awaits, all make the same middleware calls
\* (same order, same context contents, same buffered headers), run the same
\* callbacks and settle with the same result; no handler() call of any of them
\* calls a middleware twice, and the adapter's passThrough runs once for each
\* request that passed through.
C33_RequestsIndependent ==
    /\ \A r1 \in Settled : \A r2 \in Settled :
         /\ Trace(r1) = Trace(r2)
         /\ CallbackTrace(r1) = CallbackTrace(r2)
         /\ Outcome(r1) = Outcome(r2)
    /\ \A j \in 1..Len(calls) : \A k \in 1..Len(calls) :
         (calls[j].fid = calls[k].fid /\ calls[j].h = calls[k].h) => j = k
    /\ adapter.passThrough = Cardinality({r \in Settled : exits[ExitOf(r)].spt})

\* two requests have settled whose middleware calls alternated, and a third ran
\* by itself after them
C33_Witness ==
    \E r1 \in Settled : \E r2 \in Settled : \E r3 \in Settled :
      /\ r1 # r2 /\ r3 # r1 /\ r3 # r2
      /\ \E i \in CallIdsOf(r1) : \E j \in CallIdsOf(r2) :
         \E k \in CallIdsOf(r1) : \E l \in CallIdsOf(r2) : i < j /\ j < k /\ k < l
      /\ \A i \in CallIdsOf(r3) : \A j \in CallIdsOf(r1) \cup CallIdsOf(r2) : j < i
      /\ Trace(r3) # <<>>

----------------------------------------------------------------------------
(* The context a handler() call is given *)

\* what the context object of a handler() call holds: its own properties, its
\* env override, header buffer, dedup cache and the functions set on it
ContextOf(f) == [props |-> f.props, hasEnv |-> f.hasEnv, env |-> f.env,
                 ownHdr |-> f.ownHdr, hdr |-> f.hdr, cache |-> f.cache,
                 setHeader |-> f.setHeader, passThrough |-> f.spt, onResponse |-> f.cbs]

\* the handler() calls that are waiting for the call they gave their context to
Givers == 1..(Len(stack) - 1)

\* C34: no step of a handler() call, its return included, changes the context
\* object it was given: while a nested call runs and when it returns, the
\* caller's context holds the same properties, env override, header buffer,
\* cache and functions as when the call started.
C34_GivenContextUntouched ==
    [][\A p \in Givers : p <= Len(stack') => ContextOf(stack'[p]) = ContextOf(stack[p])]_vars

\* an isolated chain returned after one of its middlewares defined a property
\* or an env value on the context of the nested call
C34_Witness ==
    \E k \in CallIds :
      /\ Len(calls[k].path) = 2
      /\ calls[k].applied
      /\ calls[k].ret.t = "plugin"
      /\ Exited(calls[k].fid)
      /\ stack # <<>>

----------------------------------------------------------------------------
(* What a skipped middleware left behind *)

\* the request loop is about to skip the middleware h (line 105)
Skipping(h) == /\ Looping
               /\ chains[Top.chain].list[Top.i + 1] = h
               /\ h \in Top.cache

\* the settled calls of h made with the context of the running handler() call
\* or with one of the contexts it derives from
CalledAbove(h) == {k \in CallIds : /\ calls[k].h = h
                                   /\ calls[k].done
                                   /\ calls[k].fid \in {Top.path[j] : j \in 1..Len(Top.path)}}

\* C35: a middleware that the request loop skips has been called, and has
\* settled, with the context of this handler() call or of a call it derives
\* from; the property keys its plugin defined are in the current context and
\* the env keys it set to a value read as a value.
C35_SkippedWasCalledAbove ==
    \A h \in Middlewares :
      Skipping(h) =>
        /\ CalledAbove(h) # {}
        /\ \A k \in CalledAbove(h) :
             calls[k].applied =>
               /\ \A key \in DOMAIN calls[k].ret.props :
                    VisibleProp(stack, Len(stack), key).val # Absent
               /\ \A key \in DOMAIN calls[k].ret.env :
                    calls[k].ret.env[key] # Undef
                      => EnvLookup(stack, Len(stack), key) # Undef

\* an isolated chain skips a middleware that the enclosing chain called and
\* whose plugin defined a property or an env value
C35_Witness ==
    \E h \in Middlewares :
      /\ Skipping(h)
      /\ Len(Top.path) = 2
      /\ \E k \in CalledAbove(h) :
           /\ calls[k].fid = Top.path[1]
           /\ calls[k].applied
           /\ calls[k].ret.t = "plugin"
           /\ DOMAIN calls[k].ret.props \cup DOMAIN calls[k].ret.env # {}

----------------------------------------------------------------------------
(* Callbacks of a nested call that ends without a response *)

\* the callbacks the handler() call fid has called, in order
CalledBack(fid) == [j \in 1..Len(CallbackLog(fid)) |-> CallbackLog(fid)[j].cb]

\* s is an initial part of t
IsPrefix(s, t) == Len(s) <= Len(t) /\ \A j \in 1..Len(s) : s[j] = t[j]

\* the nested handler() calls that returned nothing although callbacks were
\* registered with them
SilentWithCallbacks == {x \in NestedSilent : exits[x].cbs # <<>>}

\* C36: the callbacks registered with a nested handler() call that returns
\* nothing are called by nobody: that call makes no callback call, and each
\* call enclosing it calls only the callbacks its own middlewares registered
\* with it, in their order, also when it ends with a response.
C36_SilentCallbacksDropped ==
    \A x \in SilentWithCallbacks :
      /\ \A c \in CbIds : cblog[c].fid # exits[x].fid
      /\ \A fid \in Range(exits[x].path) \ {exits[x].fid} :
           IsPrefix(CalledBack(fid), Registrations(fid))

\* an isolated chain registered cbKeep and returned nothing; the enclosing
\* chain then ended with a response and called its own callback, not cbKeep
C36_Witness ==
    \E x \in SilentWithCallbacks : \E e \in Responded :
      /\ exits[e].fid = exits[x].path[1]
      /\ exits[e].fid # exits[x].fid
      /\ \A j \in 1..Len(exits[x].cbs) : exits[x].cbs[j] = "cbKeep"
      /\ CalledBack(exits[e].fid) # <<>>
      /\ \A c \in CbIds : cblog[c].cb # "cbKeep"

----------------------------------------------------------------------------
(* Isolated chains that end with a response *)

\* The programs whose isolated chain returns a Response: callbacks registered
\* inside and outside, one of them replacing the response, buffered headers on
\* both sides, a middleware used on both sides.
NestedPrograms ==
    { [chains |-> <<EmptyChain,
                    createHandler(<<"hReg", "hResp">>),
                    createHandler(<<"hCb", IsoNames[1]>>)>>,
       isoOf |-> <<2>>],
      [chains |-> <<EmptyChain,
                    createHandler(<<"hCb", "hResp">>),
                    createHandler(<<"hReg", IsoNames[1]>>)>>,
       isoOf |-> <<2>>],
      [chains |-> <<EmptyChain,
                    createHandler(<<"hHdrA", "hCb", "hResp">>),
                    createHandler(<<"hHdrB", "hReg", IsoNames[1]>>)>>,
       isoOf |-> <<2>>],
      [chains |-> <<EmptyChain,
                    createHandler(<<"hReg", "hCb", "hResp">>),
                    createHandler(<<"hReg", IsoNames[1], "hResp">>)>>,
       isoOf |-> <<2>>] }

InitNested ==
    /\ \E prog \in NestedPrograms :
          /\ chains = prog.chains
          /\ isoOf = prog.isoOf
    /\ allowed = {}
    /\ stack = <<>>
    /\ calls = <<>>
    /\ exits = <<>>
    /\ result = NoValue
    /\ adapter = [passThrough |-> 0]
    /\ ran = FALSE
    /\ nextFid = 0
    /\ cblog = <<>>
    /\ made = <<>>
    /\ parked = NoParked
    /\ NoRouter

NextNested ==
    \/ \E c \in 1..Len(chains) : Invoke(c)
    \/ Skip
    \/ Call
    \/ Settle
    \/ EndRequest
    \/ RunCallback
    \/ Return

SpecNested == InitNested /\ [][NextNested]_vars

\* the nested handler() calls that returned a Response
NestedResponded == {x \in ExitIds : exits[x].parent # 0 /\ exits[x].val.t = "response"}

\* the handler() call that called the wrapper of the nested call x
CallerOf(x) == exits[x].path[Len(exits[x].path) - 1]

\* C37: a nested handler() call that returns a Response has called every
\* callback registered with it, in order, before any enclosing call calls a
\* callback; what it returns is what its last callback left (a replacement
\* included), and the first callback of its caller receives that response with
\* the caller's buffered headers set on it; the caller calls only the callbacks
\* registered with itself.
C37_NestedCallbacksFirst ==
    \A x \in NestedResponded :
      LET fid == exits[x].fid
          mine == CallbackLog(fid)
          outer == CallbackLog(CallerOf(x)) IN
      /\ CalledBack(fid) = Registrations(fid)
      /\ \A c, d \in CbIds :
           (cblog[c].fid = fid /\ cblog[d].fid \in Range(exits[x].path) \ {fid}) => c < d
      /\ mine # <<>> => exits[x].val = mine[Len(mine)].out
      /\ IsPrefix(CalledBack(CallerOf(x)), Registrations(CallerOf(x)))
      /\ outer # <<>> =>
           /\ SameResponse(outer[1].got, exits[x].val)
           /\ outer[1].got.headers = WithHeaders(exits[x].val.headers, outer[1].hdrBefore)

\* an isolated chain returned the response its callback had put in place of the
\* middleware's, and a callback the enclosing chain had registered before
\* calling the isolated chain received that replacement
C37_Witness ==
    \E x \in NestedResponded :
      /\ CallbackLog(exits[x].fid) # <<>>
      /\ exits[x].val.by = "cbReplace"
      /\ CallbackLog(CallerOf(x)) # <<>>
      /\ CallbackLog(CallerOf(x))[1].got.by = "cbReplace"
      /\ CallbackLog(CallerOf(x))[1].cb = "cbKeep"

----------------------------------------------------------------------------
(* Termination *)

\* how many handler() calls one request of the programs below starts
MaxFrames == 2

\* The programs whose callbacks register callbacks while the response loop
\* runs, next to programs that end with a response, without one, by passing
\* through and with an error.
LivePrograms ==
    NestedPrograms \cup
    { [chains |-> <<EmptyChain, createHandler(<<"hCbOnce", "hReg", "hResp">>)>>,
       isoOf |-> <<>>],
      [chains |-> <<EmptyChain, createHandler(<<"hCbAgain", "hResp">>)>>,
       isoOf |-> <<>>],
      [chains |-> <<EmptyChain,
                    createHandler(<<"hCbOnce", "hReg">>),
                    createHandler(<<IsoNames[1], "hPass">>)>>,
       isoOf |-> <<2>>],
      [chains |-> <<EmptyChain,
                    createHandler(<<"hReg", "hThrow">>),
                    createHandler(<<"hCbOnce", IsoNames[1], "hResp">>)>>,
       isoOf |-> <<2>>],
      [chains |-> <<EmptyChain,
                    createHandler(<<"hPassPlugin", "hResp">>),
                    createHandler(<<"hCb", IsoNames[1], "noop">>)>>,
       isoOf |-> <<2>>],
      [chains |-> <<EmptyChain,
                    createHandler(<<"hPassResp", "hReg">>),
                    createHandler(<<"hHdrA", IsoNames[1], "hFoo2">>)>>,
       isoOf |-> <<2>>],
      [chains |-> <<EmptyChain,
                    createHandler(<<"hFoo2", "noop", "hEnvA">>),
                    createHandler(<<"hFoo", IsoNames[1], "hEnvB", "hResp">>)>>,
       isoOf |-> <<2>>] }

InitLive ==
    /\ \E prog \in LivePrograms :
          /\ chains = prog.chains
          /\ isoOf = prog.isoOf
    /\ allowed = {}
    /\ stack = <<>>
    /\ calls = <<>>
    /\ exits = <<>>
    /\ result = NoValue
    /\ adapter = [passThrough |-> 0]
    /\ ran = FALSE
    /\ nextFid = 0
    /\ cblog = <<>>
    /\ made = <<>>
    /\ parked = NoParked
    /\ NoRouter

\* a step of a handler() call: the loops go on, and the awaited promise of
\* every middleware and callback settles
Running == Skip \/ Call \/ Settle \/ EndRequest \/ RunCallback \/ Return

SpecLive == InitLive /\ [][NextNested]_vars /\ WF_vars(Running)

\* the callbacks the middlewares of the program register
CallbacksIn(list) ==
    UNION {Range(Registers(list[j])) \cup {Beh(list[j]).ret.cb} : j \in 1..Len(list)}
ProgramCallbacks == UNION {CallbacksIn(chains[c].list) : c \in 1..Len(chains)} \ {""}

\* a callback registered while the response loop runs registers nothing itself
FiniteRegistrations ==
    \A cb \in ProgramCallbacks :
      \A j \in 1..Len(CbRegisters(cb)) : CbRegisters(CbRegisters(cb)[j]) = <<>>

\* the handler() call fid has been started / has returned or rejected
Started(fid) == nextFid >= fid
Completed(fid) == \E e \in 1..Len(exits) :
                    /\ exits[e].fid = fid
                    /\ exits[e].val.t \in {"response", "none", "error"}

----------------------------------------------------------------------------
(* passThrough() and the value the middleware returns *)

\* the settled calls of middlewares whose body called context.passThrough()
\* and that returned a Response or a plugin
PassedAndReturned == {k \in CallIds : /\ calls[k].done
                                      /\ Beh(calls[k].h).pass
                                      /\ calls[k].ret.t \in {"response", "plugin"}}

\* the awaited result of the running middleware is looked at after its body
\* called context.passThrough()
SettlesPassThrough == /\ stack # <<>>
                      /\ Top.pc = "called"
                      /\ Top.spt
                      /\ Len(stack') = Len(stack)
                      /\ stack' # stack

\* C39: when a middleware has called context.passThrough(), what it returns is
\* dropped: looking at its result leaves the context as it was (no property,
\* no env value, no callback is added) and adopts no response, and the request
\* loop is left; the handler() call then ends without calling a callback, the
\* outermost one with the 404 it makes after telling the adapter, a nested one
\* with nothing.
C39_PassThroughDropsResult ==
    /\ [](\A k \in PassedAndReturned :
            /\ ~calls[k].applied
            /\ \A j \in CallsBy(calls[k].fid) : j <= k
            /\ \A c \in CbIds : cblog[c].fid # calls[k].fid
            /\ Exited(calls[k].fid) =>
                 LET e == exits[ExitOf(calls[k].fid)] IN
                 /\ e.spt
                 /\ IF e.parent = 0
                    THEN /\ e.val.t = "response" /\ e.val.status = 404 /\ e.val.by = "notFound"
                         /\ adapter.passThrough = 1
                    ELSE e.val.t = "none")
    /\ [][SettlesPassThrough =>
            /\ ContextOf(stack'[Len(stack)]) = ContextOf(stack[Len(stack)])
            /\ ~stack'[Len(stack)].hasResp
            /\ stack'[Len(stack)].pc = "endreq"]_vars

\* the outermost handler() call returned after a middleware that had called
\* passThrough() returned a plugin with a property, an env value and a callback
C39_Witness ==
    \E k \in PassedAndReturned :
      /\ calls[k].ret.t = "plugin"
      /\ calls[k].ret.cb # "" /\ calls[k].ret.props # EmptyFn /\ calls[k].ret.env # EmptyFn
      /\ Exited(calls[k].fid)
      /\ exits[ExitOf(calls[k].fid)].parent = 0

\* the same with a middleware that returned a Response
C39_ResponseWitness ==
    \E k \in PassedAndReturned :
      /\ calls[k].ret.t = "response"
      /\ Exited(calls[k].fid)
      /\ exits[ExitOf(calls[k].fid)].parent = 0

----------------------------------------------------------------------------
(* Shadowing inside an isolated chain *)

\* the merged plugins of a nested handler() call that define a key which the
\* context already showed, defined on an enclosing context
Shadowing(key) == {k \in CallIds : /\ Merged(k)
                                   /\ key \in DOMAIN calls[k].ret.props
                                   /\ Len(calls[k].path) > 1
                                   /\ calls[k].props[key].val # Absent
                                   /\ calls[k].props[key].owner # calls[k].fid}

\* the handler() call of call j merged no plugin with this key between k and j
Undefined(key, k, j) == \A m \in CallIds : (k < m /\ m < j /\ calls[m].fid = calls[j].fid
                                             /\ Merged(m))
                                              => key \notin DOMAIN calls[m].ret.props

\* C40: a plugin of a nested handler() call that defines a key already defined
\* on an enclosing context is merged without an error; the middlewares called
\* after it by the nested call read its value, as an own property of the nested
\* context, and the middlewares the enclosing call calls after the nested call
\* still read what the key held before (as long as the reading call's own chain
\* has not defined the key again).
C40_NestedDefinitionShadows ==
    \A key \in Keys : \A k \in Shadowing(key) :
      /\ calls[k].ret.t # "error"
      /\ result.t # "error"
      /\ \A j \in CallIds :
           (j > k /\ Undefined(key, k, j)) =>
             /\ calls[j].fid = calls[k].fid =>
                  calls[j].props[key] = [val |-> calls[k].ret.props[key].val,
                                         owner |-> calls[k].fid]
             /\ calls[j].fid = calls[k].props[key].owner =>
                  calls[j].props[key] = calls[k].props[key]

\* an isolated chain defined foo anew, one of its middlewares read the new
\* value, and a middleware of the enclosing chain then read the first value
C40_Witness ==
    \E k \in Shadowing("foo") : \E i, j \in CallIds :
      /\ k < i /\ i < j
      /\ calls[i].fid = calls[k].fid
      /\ calls[i].props["foo"].val = "v2"
      /\ calls[j].fid = calls[k].props["foo"].owner
      /\ calls[j].props["foo"].val = "v1"
      /\ Exited(calls[k].fid)

====
